---- MODULE Spec2Model ----
(***************************************************************************)
(* A model of the review pipeline of Code Conclave (package conclave):     *)
(*   - calculate_verdict / get_exit_code       (core/synthesis.py)         *)
(*   - BaseProvider.complete_with_retry        (providers/base.py)         *)
(*   - sanitize_error                          (utils/sanitize.py)         *)
(*   - parse_findings_markdown                 (core/findings.py)          *)
(*   - run_validator and its helpers           (core/validator.py)         *)
(*   - run_review                              (core/orchestrator.py)      *)
(*                                                                         *)
(* Python dicts are functions with a finite domain of strings (a record    *)
(* when the keys are fixed); the empty dict and None are the empty         *)
(* function <<>>.  An insertion-ordered dict keyed by agent is a sequence   *)
(* of [key, data] pairs.  Texts are sequences of tokens.                   *)
(***************************************************************************)
EXTENDS Integers, Sequences, FiniteSets, TLC

VARIABLES
    \* ---- calculate_verdict as a pure function (SpecVerdict)
    vd_findings,      \* the all_findings dict handed to calculate_verdict
    vd_verdict,       \* its result, "none" before the call
    \* ---- complete_with_retry (SpecRetry)
    max_attempts,     \* self.max_attempts (common_config retry_attempts)
    home,             \* the HOME / USERPROFILE text is set
    attempt,          \* the loop variable of complete_with_retry
    ncalls,           \* number of calls of self.complete made so far
    last_result,      \* last_result: what the last self.complete returned
    returned,         \* the value complete_with_retry returned
    slept,            \* the last wait_time handed to asyncio.sleep
    rpc,              \* "idle" | "loop" | "done"
    all429,           \* every failure so far was a rate limit without a 4xx marker
    all5xx,           \* every failure so far was a 5xx/timeout without 429 or 4xx
    \* ---- run_review (Spec)
    pc,               \* "start" | "agents" | "validate" | "synthesize" | "archive" | "done"
    dry_run,          \* the dry_run argument
    valid_agents,     \* valid_agents, after the start_from cut
    idx,              \* position of the agent loop in valid_agents
    all_findings,     \* all_findings: agent key -> agent result, in insertion order
    json_files,       \* reviews/<agent>-findings.json: agent key -> exported result
    validation_stats, \* what run_validator returned as stats, <<>> when it was not called
    verdict,          \* "none" until calculate_verdict has run
    exit_code,        \* the value run_review returns, -1 while it runs
    report,           \* RELEASE-READINESS-REPORT.md: its verdict and totals, <<>> before
    archive,          \* what export_run_archive wrote, <<>> before
    steps,            \* the steps taken so far, in order
    ci,               \* the --ci flag of the command line
    process_exit,     \* the exit status of the ccl or rc process, -1 while it runs
    \* ---- the calibration store (SpecCalibration)
    cal_file,         \* .code-conclave/calibration.yaml
    cal_file0,        \* the file as it was before the first call
    cal_calls,        \* the entries built by the calls made so far, in order
    cal_context,      \* what build_calibration_context returned, <<>> before
    \* ---- parse_findings_markdown as a pure function (SpecParse)
    pd_content,       \* the markdown handed to parse_findings_markdown
    pd_result,        \* what it returned, <<>> before the call
    \* ---- run_validator as a pure function (SpecValidate)
    va_findings,      \* the all_findings dict handed to run_validator
    va_result,        \* what the provider returns to run_validator
    va_out,           \* what run_validator returned, <<>> before the call
    va_again,         \* what a second _apply_adjustments returned, <<>> before
    \* ---- get_file_tier as a pure function (SpecScan)
    sc_path,          \* the file handed to get_file_tier, relative to the project
    sc_tier,          \* the tier it returned, 0 before the call
    \* ---- get_source_files_content, step by step (SpecSelect)
    ss_disk,          \* the files of the project: [path, size, kind, exists]
    ss_created,       \* how many files were written into the project
    ss_pc,            \* where the scan stands
    ss_limits,        \* max_files, max_bytes, max_file_bytes, tier_size_cap of the call
    ss_all_files,     \* all_files of the walk
    ss_tiered,        \* tiered: (file, tier) of the size-eligible files
    ss_tier_groups,   \* tier_groups, each sorted by size descending
    ss_selected,      \* selected and total_size (with the counters of the last tier)
    ss_result         \* the ScanResult returned, <<>> before

verdictVars == <<vd_findings, vd_verdict>>
retryVars == <<max_attempts, home, attempt, ncalls, last_result, returned, slept,
               rpc, all429, all5xx>>
runVars == <<pc, dry_run, valid_agents, idx, all_findings, json_files, validation_stats,
             verdict, exit_code, report, archive, steps, ci, process_exit>>
calVars == <<cal_file, cal_file0, cal_calls, cal_context>>
parseVars == <<pd_content, pd_result>>
validateVars == <<va_findings, va_result, va_out, va_again>>
scanVars == <<sc_path, sc_tier>>
selectVars == <<ss_disk, ss_created, ss_pc, ss_limits, ss_all_files, ss_tiered, ss_tier_groups,
                ss_selected, ss_result>>
auxVars == <<calVars, parseVars, validateVars, scanVars, selectVars>>
vars == <<verdictVars, retryVars, runVars, auxVars>>

-----------------------------------------------------------------------------
(* Bounds of the model *)

MaxCount == 3            \* largest per-severity count in a summary handed to calculate_verdict
MaxVerdictAgents == 2    \* number of agents in the dict handed to calculate_verdict
MaxConfigured == 6       \* largest configured retry_attempts
MaxErrLen == 2           \* number of tokens in an error text

-----------------------------------------------------------------------------
(* Python helpers *)

\* dict.get(k, default)
Get(d, k, default) == IF k \in DOMAIN d THEN d[k] ELSE default

\* `not d` for a dict or None
IsEmpty(d) == DOMAIN d = {}

\* Optional[str]: None, or a text
None == [some |-> FALSE, val |-> <<>>]
Some(t) == [some |-> TRUE, val |-> t]

\* `x or ""`
OrEmpty(x) == IF x.some THEN x.val ELSE <<>>

Max(a, b) == IF a >= b THEN a ELSE b
Min(a, b) == IF a <= b THEN a ELSE b

\* `code in text`: the text carries the marker
Contains(text, code) == \E i \in 1..Len(text) : text[i] = code

\* dict.values() of an insertion-ordered dict
Values(dict) == [i \in 1..Len(dict) |-> dict[i].data]

\* the keys of an insertion-ordered dict
Keys(dict) == {dict[i].key : i \in 1..Len(dict)}

\* d[k] of an insertion-ordered dict, for a key it holds
Lookup(dict, k) == dict[CHOOSE i \in 1..Len(dict) : dict[i].key = k].data

\* d[k] = v: replaces in place the value of a key it holds, else appends
DictSet(dict, k, v) ==
    IF k \in Keys(dict)
    THEN [i \in 1..Len(dict) |-> IF dict[i].key = k THEN [key |-> k, data |-> v] ELSE dict[i]]
    ELSE Append(dict, [key |-> k, data |-> v])

\* AGENT_DEFS / ALL_AGENT_KEYS
ALL_AGENT_KEYS == <<"guardian", "sentinel", "architect", "navigator", "herald", "operator">>

-----------------------------------------------------------------------------
(* core/synthesis.py *)

\* the loop of calculate_verdict, for one key of the summaries
RECURSIVE TotalOf(_, _)
TotalOf(values, k) ==
    IF values = <<>> THEN 0
    ELSE LET agent_data == Head(values)
             skip == IsEmpty(agent_data) \/ IsEmpty(Get(agent_data, "summary", <<>>))
         IN  (IF skip THEN 0 ELSE Get(agent_data["summary"], k, 0))
             + TotalOf(Tail(values), k)

\* a plausible slip: the CONDITIONAL threshold taken as >= 3
calculate_verdict_off_by_one(findings_dict) ==
    LET total_blockers == TotalOf(Values(findings_dict), "blockers")
        total_high == TotalOf(Values(findings_dict), "high")
    IN  IF total_blockers > 0 THEN "HOLD"
        ELSE IF total_high >= 3 THEN "CONDITIONAL"
        ELSE "SHIP"

calculate_verdict(findings_dict) ==
    LET total_blockers == TotalOf(Values(findings_dict), "blockers")
        total_high == TotalOf(Values(findings_dict), "high")
    IN  IF total_blockers > 0 THEN "HOLD"
        ELSE IF total_high > 3 THEN "CONDITIONAL"
        ELSE "SHIP"

\* a plausible slip: the codes of HOLD and CONDITIONAL the other way round
get_exit_code_swapped(v) ==
    CASE v = "SHIP" -> 0
      [] v = "CONDITIONAL" -> 1
      [] v = "HOLD" -> 2

get_exit_code(v) ==
    CASE v = "SHIP" -> 0
      [] v = "CONDITIONAL" -> 2
      [] v = "HOLD" -> 1
      [] OTHER -> 0

\* generate_synthesis_report: the verdict line and the totals table
generate_synthesis_report(findings_dict) ==
    [verdict |-> calculate_verdict(findings_dict),
     totals |-> [blockers |-> TotalOf(Values(findings_dict), "blockers"),
                 high |-> TotalOf(Values(findings_dict), "high"),
                 medium |-> TotalOf(Values(findings_dict), "medium"),
                 low |-> TotalOf(Values(findings_dict), "low"),
                 total |-> TotalOf(Values(findings_dict), "total")]]

\* ---- calculate_verdict on its own: any dict of agent results

\* what one agent's entry can be: None, a dict with an empty summary, or a
\* dict whose summary counts blockers and highs
VerdictData ==
    {<<>>, [summary |-> <<>>]}
    \cup {[summary |-> [blockers |-> b, high |-> h]] : b \in 0..MaxCount, h \in 0..MaxCount}

VerdictDicts ==
    UNION {{[i \in 1..n |-> [key |-> ALL_AGENT_KEYS[i], data |-> f[i]]] :
              f \in [1..n -> VerdictData]} : n \in 0..MaxVerdictAgents}

InitVerdict ==
    /\ vd_findings \in VerdictDicts
    /\ vd_verdict = "none"

IdleVerdict ==
    /\ vd_findings = <<>>
    /\ vd_verdict = "none"

CalculateVerdict ==
    /\ vd_verdict = "none"
    /\ vd_verdict' = calculate_verdict(vd_findings)
    /\ UNCHANGED vd_findings
    /\ UNCHANGED <<retryVars, runVars, auxVars>>

-----------------------------------------------------------------------------
(* utils/sanitize.py *)

KeyTokens == {"sk-ant-abc123", "sk-0123456789abcdefghij"}
HeaderRules == <<"Bearer", "api-key:", "x-api-key:", "Authorization:">>
HomeToken == "/home/dev"

\* re.sub of one key pattern: every key-shaped token is replaced
RedactKeys(text) ==
    [i \in 1..Len(text) |-> IF text[i] \in KeyTokens THEN "[REDACTED_KEY]" ELSE text[i]]

\* re.sub(r"<header>\s+\S+", "<header> [REDACTED]"): scanning left to right,
\* the token after the header is consumed by the match and replaced
RECURSIVE RedactAfter(_, _)
RedactAfter(text, header) ==
    IF Len(text) < 2 THEN text
    ELSE IF text[1] = header
         THEN <<header, "[REDACTED]">> \o RedactAfter(SubSeq(text, 3, Len(text)), header)
         ELSE <<text[1]>> \o RedactAfter(Tail(text), header)

RECURSIVE RedactHeaders(_, _)
RedactHeaders(text, n) ==
    IF n > Len(HeaderRules) THEN text
    ELSE RedactHeaders(RedactAfter(text, HeaderRules[n]), n + 1)

RedactHome(text, home_set) ==
    IF home_set
    THEN [i \in 1..Len(text) |-> IF text[i] = HomeToken THEN "[USER_HOME]" ELSE text[i]]
    ELSE text

sanitize_error(message, home_set) ==
    IF message = <<>> THEN message
    ELSE RedactHome(RedactHeaders(RedactKeys(message), 1), home_set)

-----------------------------------------------------------------------------
(* providers/base.py *)

RetryableMarkers == {"500", "502", "503", "504", "timeout", "timed out"}
NonRetryableMarkers == {"400", "401", "403", "404"}

RetryDelay == 5     \* common_config retry_delay_seconds, default
RateLimitDelay == 30
RateLimitFloor == 5

\* the tokens error texts are made of
ErrTokens == {"429", "503", "timeout", "401", "404", "sk-ant-abc123", "Bearer",
              HomeToken, "refused"}

ErrorTexts == UNION {[1..n -> ErrTokens] : n \in 0..MaxErrLen}

\* CompletionResult: what self.complete can return
CompletionResults ==
    {[success |-> TRUE, content |-> "ok", error |-> None]}
    \cup {[success |-> FALSE, content |-> "", error |-> e] :
            e \in {None} \cup {Some(t) : t \in ErrorTexts}}

HasAny(text, codes) == \E c \in codes : Contains(text, c)

is_rate_limit(error_msg) == Contains(error_msg, "429")

\* a plausible slip: the 4xx exclusion left out
is_retryable_no_exclusion(error_msg) ==
    is_rate_limit(error_msg) \/ HasAny(error_msg, RetryableMarkers)

is_retryable(error_msg) ==
    /\ is_rate_limit(error_msg) \/ HasAny(error_msg, RetryableMarkers)
    /\ ~HasAny(error_msg, NonRetryableMarkers)

\* a plausible slip: the floor of five left out
rate_limit_max_no_floor == max_attempts

rate_limit_max == Max(max_attempts, RateLimitFloor)

\* a plausible slip: the rate-limit ceiling used for every retryable failure
effective_max_always_rate_limit(error_msg) == rate_limit_max

effective_max(error_msg) ==
    IF is_rate_limit(error_msg) THEN rate_limit_max ELSE max_attempts

\* line 88: the failure is final
gives_up(error_msg, n) ==
    ~is_retryable(error_msg) \/ n >= effective_max(error_msg)

\* a plausible slip: the failure handed back as it came
failure_result_raw(result, error_msg) == result

\* lines 89-90: result.error = sanitize_error(error_msg); return result
failure_result(result, error_msg) ==
    [result EXCEPT !.error = Some(sanitize_error(error_msg, home))]

wait_time(error_msg, n) ==
    (IF is_rate_limit(error_msg) THEN RateLimitDelay ELSE RetryDelay) * Min(n, 3)

Is5xxClass(error_msg) ==
    /\ HasAny(error_msg, RetryableMarkers)
    /\ ~is_rate_limit(error_msg)
    /\ ~HasAny(error_msg, NonRetryableMarkers)

Is429Class(error_msg) ==
    /\ is_rate_limit(error_msg)
    /\ ~HasAny(error_msg, NonRetryableMarkers)

InitRetry ==
    /\ max_attempts \in -1..MaxConfigured
    /\ home \in BOOLEAN
    /\ attempt = 1
    /\ ncalls = 0
    /\ last_result = [success |-> FALSE, content |-> "", error |-> None]
    /\ returned = [success |-> FALSE, content |-> "", error |-> None]
    /\ slept = 0
    /\ rpc = "loop"
    /\ all429 = TRUE
    /\ all5xx = TRUE

IdleRetry ==
    /\ max_attempts = 3
    /\ home = FALSE
    /\ attempt = 1
    /\ ncalls = 0
    /\ last_result = [success |-> FALSE, content |-> "", error |-> None]
    /\ returned = [success |-> FALSE, content |-> "", error |-> None]
    /\ slept = 0
    /\ rpc = "idle"
    /\ all429 = TRUE
    /\ all5xx = TRUE

\* one iteration of the loop of complete_with_retry: the call of self.complete
\* (its outcome is the environment's choice) and what the loop does with it
RetryAttempt(result) ==
    /\ rpc = "loop"
    /\ attempt <= rate_limit_max
    /\ ncalls' = ncalls + 1
    /\ last_result' = result
    /\ LET error_msg == OrEmpty(result.error)
       IN  /\ all429' = (all429 /\ (~result.success => Is429Class(error_msg)))
           /\ all5xx' = (all5xx /\ (~result.success => Is5xxClass(error_msg)))
           /\ IF result.success
              THEN /\ returned' = result
                   /\ rpc' = "done"
                   /\ UNCHANGED <<attempt, slept>>
              ELSE IF gives_up(error_msg, attempt)
              THEN /\ returned' = failure_result(result, error_msg)
                   /\ rpc' = "done"
                   /\ UNCHANGED <<attempt, slept>>
              ELSE /\ slept' = wait_time(error_msg, attempt)
                   /\ attempt' = attempt + 1
                   /\ IF attempt + 1 > rate_limit_max
                      THEN \* line 97: the loop ran out, last_result as it is
                           /\ returned' = result
                           /\ rpc' = "done"
                      ELSE /\ rpc' = "loop"
                           /\ UNCHANGED returned
    /\ UNCHANGED <<max_attempts, home>>
    /\ UNCHANGED <<verdictVars, runVars, auxVars>>

-----------------------------------------------------------------------------
(* core/findings.py *)

\* A markdown text is a sequence of tokens, one to a line: a fence (```), a
\* finding heading (### ID: title [SEVERITY]), a heading cut after its colon
\* (### ID:), a location line (**File:** `path` or `path:number`), a line
\* field (**Line:** number) or any other text.
FenceTok == [kind |-> "fence", id |-> "", sev |-> ""]
TextTok == [kind |-> "text", id |-> "", sev |-> ""]
Heading(id, sev) == [kind |-> "heading", id |-> id, sev |-> sev]
StubTok(id) == [kind |-> "stub", id |-> id, sev |-> ""]
LocationTok(file, line) == [kind |-> "location", file |-> file, line |-> line]
LineTok(line) == [kind |-> "line", line |-> line]

FencePositions(content) == {i \in 1..Len(content) : content[i].kind = "fence"}

\* re.finditer(r"```[\s\S]*?```"): the matches do not overlap, so the fences
\* pair up in order (1st with 2nd, 3rd with 4th); a range is (start, end)
get_code_block_ranges(content) ==
    LET fp == FencePositions(content)
        rank(i) == Cardinality({j \in fp : j <= i})
    IN  {<<i, j + 1>> : <<i, j>> \in
            {q \in fp \X fp : rank(q[1]) % 2 = 1 /\ rank(q[2]) = rank(q[1]) + 1}}

in_code_block(pos, ranges) == \E r \in ranges : r[1] <= pos /\ pos < r[2]

\* the pattern of line 68 at token i: "\s*" after the colon runs over line
\* ends and ".+?" stays on one line, so a heading cut after its colon matches
\* together with a whole heading on the line below it, with its own id, the
\* lower heading as title and the lower heading's severity
MatchAt(content, i) ==
    IF content[i].kind = "heading"
    THEN [found |-> TRUE, id |-> content[i].id, sev |-> content[i].sev, end |-> i + 1]
    ELSE IF content[i].kind = "stub" /\ i < Len(content) /\ content[i + 1].kind = "heading"
    THEN [found |-> TRUE, id |-> content[i].id, sev |-> content[i + 1].sev, end |-> i + 2]
    ELSE [found |-> FALSE, id |-> "", sev |-> "", end |-> i + 1]

\* lines 79-83: from the end of the match to the next "###" or to the end
section_after(content, start_pos) ==
    LET headers == {j \in start_pos..Len(content) : content[j].kind \in {"heading", "stub"}}
        end_pos == IF headers = {} THEN Len(content) + 1
                   ELSE CHOOSE j \in headers : \A k \in headers : j <= k
    IN  SubSeq(content, start_pos, end_pos - 1)

\* re.search on a section: the first token of a kind, or None
search_token(section, kind) ==
    LET hits == {j \in 1..Len(section) : section[j].kind = kind}
    IN  IF hits = {} THEN None
        ELSE Some(section[CHOOSE j \in hits : \A k \in hits : j <= k])

\* lines 85-99: file_val and line_val of the Location/File line; a location
\* without ":number" carries line None
location_of(section) ==
    LET loc_match == search_token(section, "location")
    IN  IF loc_match.some
        THEN [file_val |-> Some(loc_match.val.file), line_val |-> loc_match.val.line]
        ELSE [file_val |-> None, line_val |-> None]

\* lines 101-107: the separate Line field, looked for when line_val is None
line_of(section, line_val) ==
    IF line_val.some THEN line_val
    ELSE LET line_match == search_token(section, "line")
         IN  IF line_match.some THEN Some(line_match.val.line) ELSE None

\* lines 131-144: the finding dict, a key only for what was found
finding_of(finding_id, severity, section) ==
    LET file_val == location_of(section).file_val
        line_val == line_of(section, location_of(section).line_val)
        base == [id |-> finding_id, severity |-> severity]
    IN  IF file_val.some /\ line_val.some
           THEN [id |-> finding_id, severity |-> severity, file |-> file_val.val,
                 line |-> line_val.val]
        ELSE IF file_val.some
           THEN [id |-> finding_id, severity |-> severity, file |-> file_val.val]
        ELSE IF line_val.some
           THEN [id |-> finding_id, severity |-> severity, line |-> line_val.val]
        ELSE base

\* the loop over re.finditer(pattern, content), from token i on; the matches
\* do not overlap
RECURSIVE FindingsFrom(_, _, _)
FindingsFrom(content, i, ranges) ==
    IF i > Len(content) THEN <<>>
    ELSE (IF MatchAt(content, i).found /\ ~in_code_block(i, ranges)
          THEN <<finding_of(MatchAt(content, i).id, MatchAt(content, i).sev,
                            section_after(content, MatchAt(content, i).end))>>
          ELSE <<>>)
         \o FindingsFrom(content, MatchAt(content, i).end, ranges)

CountSeverity(findings, sev) ==
    Cardinality({i \in 1..Len(findings) : findings[i].severity = sev})

\* lines 157-163
summary_of(findings) ==
    [blockers |-> CountSeverity(findings, "BLOCKER"),
     high |-> CountSeverity(findings, "HIGH"),
     medium |-> CountSeverity(findings, "MEDIUM"),
     low |-> CountSeverity(findings, "LOW"),
     total |-> Len(findings)]

parse_findings_markdown(content, agent_key) ==
    LET findings == FindingsFrom(content, 1, get_code_block_ranges(content))
    IN  [agent |-> agent_key,
         status |-> "complete",
         summary |-> summary_of(findings),
         findings |-> findings,
         rawMarkdown |-> content]

\* export_run_archive: the per-agent entries, without rawMarkdown
ArchiveEntry(af) ==
    [status |-> Get(af, "status", "complete"),
     summary |-> Get(af, "summary", <<>>),
     findings |-> Get(af, "findings", <<>>)]

export_run_archive(agent_findings, run_metadata) ==
    [verdict |-> run_metadata.verdict,
     exitCode |-> run_metadata.exit_code,
     summary |-> [blockers |-> TotalOf(Values(agent_findings), "blockers"),
                  high |-> TotalOf(Values(agent_findings), "high"),
                  medium |-> TotalOf(Values(agent_findings), "medium"),
                  low |-> TotalOf(Values(agent_findings), "low"),
                  total |-> TotalOf(Values(agent_findings), "blockers")
                            + TotalOf(Values(agent_findings), "high")
                            + TotalOf(Values(agent_findings), "medium")
                            + TotalOf(Values(agent_findings), "low")],
     agents |-> [i \in 1..Len(agent_findings) |->
                    [key |-> agent_findings[i].key,
                     data |-> ArchiveEntry(agent_findings[i].data)]]]

-----------------------------------------------------------------------------
(* core/validator.py *)

\* the findings of one agent that go on the worklist
HighOf(agent_key, findings) ==
    LET sel == SelectSeq(findings, LAMBDA f : Get(f, "severity", "") \in {"BLOCKER", "HIGH"})
    IN  [i \in 1..Len(sel) |->
            [agent |-> agent_key, finding_id |-> Get(sel[i], "id", ""),
             severity |-> sel[i].severity]]

RECURSIVE collect_high_severity_findings(_)
collect_high_severity_findings(findings_dict) ==
    IF findings_dict = <<>> THEN <<>>
    ELSE HighOf(Head(findings_dict).key, Get(Head(findings_dict).data, "findings", <<>>))
         \o collect_high_severity_findings(Tail(findings_dict))

\* The validator's output is a sequence of tokens: a block
\* "### VALIDATE: <id> - <original> -> <adjusted>" or any other text.
ValidateBlock(id, original, adjusted) ==
    [kind |-> "validate", id |-> id, original |-> original, adjusted |-> adjusted]
NoiseTok == [kind |-> "text", id |-> "", original |-> "", adjusted |-> ""]

\* lines 96-102
decision_of(original, adjusted) ==
    IF adjusted = "REJECTED" THEN "rejected"
    ELSE IF adjusted = original THEN "confirmed"
    ELSE "downgraded"

RECURSIVE parse_validation_results(_)
parse_validation_results(content) ==
    IF content = <<>> THEN <<>>
    ELSE (IF Head(content).kind = "validate"
          THEN <<[finding_id |-> Head(content).id,
                  original_severity |-> Head(content).original,
                  adjusted_severity |-> Head(content).adjusted,
                  decision |-> decision_of(Head(content).original, Head(content).adjusted)]>>
          ELSE <<>>)
         \o parse_validation_results(Tail(content))

\* a plausible slip: the first adjustment naming fid wins
adjustment_for_first(adjustments, fid) ==
    LET hits == {i \in 1..Len(adjustments) : adjustments[i].finding_id = fid}
    IN  IF hits = {} THEN <<>>
        ELSE adjustments[CHOOSE i \in hits : \A j \in hits : i <= j]

\* adjustment_map.get(fid): the last adjustment naming fid, <<>> (None) if none
adjustment_for(adjustments, fid) ==
    LET hits == {i \in 1..Len(adjustments) : adjustments[i].finding_id = fid}
    IN  IF hits = {} THEN <<>>
        ELSE adjustments[CHOOSE i \in hits : \A j \in hits : j <= i]

\* a plausible slip: original_severity taken from the validator's block
adjust_finding_stated_original(finding, adj) ==
    IF adj.decision = "rejected"
    THEN [original_severity |-> adj.original_severity,
          severity |-> "REJECTED",
          validated |-> "rejected"] @@ finding
    ELSE IF adj.decision = "downgraded"
    THEN [original_severity |-> adj.original_severity,
          severity |-> adj.adjusted_severity,
          validated |-> "downgraded"] @@ finding
    ELSE [validated |-> "confirmed"] @@ finding

\* lines 140-154: the finding as the matched adjustment leaves it
adjust_finding(finding, adj) ==
    IF adj.decision = "rejected"
    THEN [original_severity |-> Get(finding, "severity", ""),
          severity |-> "REJECTED",
          validated |-> "rejected"] @@ finding
    ELSE IF adj.decision = "downgraded"
    THEN [original_severity |-> Get(finding, "severity", ""),
          severity |-> adj.adjusted_severity,
          validated |-> "downgraded"] @@ finding
    ELSE [validated |-> "confirmed"] @@ finding

\* a plausible slip: the rejected finding stays in the list, as the comment
\* on line 141 describes
keeps_finding_rejected_kept(adj) == TRUE

\* lines 137-156: the finding is appended to adjusted_findings
keeps_finding(adj) == IsEmpty(adj) \/ adj.decision # "rejected"

\* a plausible slip: each finding put in front of those after it
RECURSIVE adjusted_findings_prepended(_, _)
adjusted_findings_prepended(findings, adjustments) ==
    IF findings = <<>> THEN <<>>
    ELSE LET finding == Head(findings)
             adj == adjustment_for(adjustments, Get(finding, "id", ""))
         IN  adjusted_findings_prepended(Tail(findings), adjustments)
             \o (IF keeps_finding(adj)
                 THEN <<IF IsEmpty(adj) THEN finding ELSE adjust_finding(finding, adj)>>
                 ELSE <<>>)

\* lines 132-156: adjusted_findings of one agent
RECURSIVE adjusted_findings_of(_, _)
adjusted_findings_of(findings, adjustments) ==
    IF findings = <<>> THEN <<>>
    ELSE LET finding == Head(findings)
             adj == adjustment_for(adjustments, Get(finding, "id", ""))
         IN  (IF keeps_finding(adj)
              THEN <<IF IsEmpty(adj) THEN finding ELSE adjust_finding(finding, adj)>>
              ELSE <<>>)
             \o adjusted_findings_of(Tail(findings), adjustments)

\* a plausible slip: the summary left as it was
recalculated_summary_stale(old_summary, adjusted_findings) == old_summary

\* lines 160-173
recalculated_summary(old_summary, adjusted_findings) ==
    [blockers |-> CountSeverity(adjusted_findings, "BLOCKER"),
     high |-> CountSeverity(adjusted_findings, "HIGH"),
     medium |-> CountSeverity(adjusted_findings, "MEDIUM"),
     low |-> CountSeverity(adjusted_findings, "LOW"),
     total |-> Len(adjusted_findings)]

\* line 138, summed over every finding of every agent
RECURSIVE MatchCount(_, _, _)
MatchCount(findings_dict, adjustments, decision) ==
    IF findings_dict = <<>> THEN 0
    ELSE LET findings == Get(Head(findings_dict).data, "findings", <<>>)
         IN  Cardinality({i \in 1..Len(findings) :
                 LET adj == adjustment_for(adjustments, Get(findings[i], "id", ""))
                 IN  ~IsEmpty(adj) /\ adj.decision = decision})
             + MatchCount(Tail(findings_dict), adjustments, decision)

\* lines 158 and 173: the agent's entry with its new findings and summary
with_adjusted(agent_data, adjusted_findings) ==
    [summary |-> recalculated_summary(Get(agent_data, "summary", <<>>), adjusted_findings),
     findings |-> adjusted_findings] @@ agent_data

apply_adjustments(findings_dict, adjustments) ==
    [findings |->
        [i \in 1..Len(findings_dict) |->
            [key |-> findings_dict[i].key,
             data |-> with_adjusted(findings_dict[i].data,
                         adjusted_findings_of(Get(findings_dict[i].data, "findings", <<>>),
                                              adjustments))]],
     stats |-> [confirmed |-> MatchCount(findings_dict, adjustments, "confirmed"),
                downgraded |-> MatchCount(findings_dict, adjustments, "downgraded"),
                rejected |-> MatchCount(findings_dict, adjustments, "rejected"),
                total |-> Len(adjustments)]]

AllConfirmed(n) == [confirmed |-> n, downgraded |-> 0, rejected |-> 0, total |-> n]

\* lines 262-280: the adjustments applied
validated(findings_dict, adjustments) ==
    [path |-> IF adjustments = <<>> THEN "no_adjustments" ELSE "applied"]
    @@ apply_adjustments(findings_dict, adjustments)

\* run_validator, given what provider.complete_with_retry returns when called.
\* path: the return it took ("nothing": line 195, "dry_run": line 204, "failed":
\* line 250, "no_adjustments" and "applied": line 280, by the adjustments parsed)
run_validator(findings_dict, is_dry_run, result) ==
    LET high_severity == collect_high_severity_findings(findings_dict)
    IN  IF high_severity = <<>>
        THEN [findings |-> findings_dict, stats |-> AllConfirmed(0), path |-> "nothing"]
        ELSE IF is_dry_run
        THEN [findings |-> findings_dict, stats |-> AllConfirmed(Len(high_severity)),
              path |-> "dry_run"]
        ELSE IF ~result.success
        THEN [findings |-> findings_dict, stats |-> AllConfirmed(Len(high_severity)),
              path |-> "failed"]
        ELSE validated(findings_dict, parse_validation_results(result.content))

-----------------------------------------------------------------------------
(* core/orchestrator.py, core/agents.py, core/licensing.py *)

MaxSelected == 2     \* number of agent names given with --agents
MaxFindings == 2     \* number of finding headings in an agent's answer
MaxAdjustments == 2  \* number of VALIDATE blocks in the validator's answer

\* FEATURE_MATRIX["allowed_agents"] of the free tier, the tier of the model
allowed_agents == {"guardian", "sentinel"}

\* names --agents can carry: allowed ones, one of a higher tier, an unknown one
AgentNames == {"guardian", "sentinel", "architect", "reviewer"}

AgentArgs == UNION {[1..n -> AgentNames] : n \in 1..MaxSelected}

InAgentDefs(a) == \E i \in 1..Len(ALL_AGENT_KEYS) : ALL_AGENT_KEYS[i] = a

\* lines 212-216; agents = <<>> is None
resolve_agents(agents) ==
    IF agents # <<>>
    THEN SelectSeq(agents, LAMBDA a : InAgentDefs(a) /\ a \in allowed_agents)
    ELSE SelectSeq(ALL_AGENT_KEYS, LAMBDA a : a \in allowed_agents)

\* lines 223-225; start_from = "" is None
cut_start_from(agents, start_from) ==
    IF start_from # "" /\ Contains(agents, start_from)
    THEN SubSeq(agents, CHOOSE i \in 1..Len(agents) :
                            agents[i] = start_from /\ \A j \in 1..(i - 1) : agents[j] # start_from,
                Len(agents))
    ELSE agents

\* MOCK_FINDINGS
MOCK_FINDINGS(agent_key) ==
    IF agent_key = "guardian"
    THEN <<TextTok, Heading("GUARDIAN-001", "BLOCKER"), FenceTok, TextTok, FenceTok,
           Heading("GUARDIAN-002", "HIGH"), Heading("GUARDIAN-003", "MEDIUM"), TextTok>>
    ELSE <<TextTok, Heading("SENTINEL-001", "HIGH"), Heading("SENTINEL-002", "MEDIUM"),
           Heading("SENTINEL-003", "LOW"), TextTok>>

\* What an agent's answer can be: findings numbered in order under the
\* agent's own prefix, each of any severity, or one of the odd answers
Severities == {"BLOCKER", "HIGH", "MEDIUM", "LOW"}
NumberedIds ==
    [guardian |-> <<"GUARDIAN-001", "GUARDIAN-002", "GUARDIAN-003">>,
     sentinel |-> <<"SENTINEL-001", "SENTINEL-002", "SENTINEL-003">>]

\* an id used twice; a heading inside a code block
OddDocs ==
    {<<Heading("GUARDIAN-001", "HIGH"), Heading("GUARDIAN-001", "MEDIUM")>>,
     <<FenceTok, Heading("GUARDIAN-001", "BLOCKER"), FenceTok, Heading("GUARDIAN-002", "HIGH")>>}

AgentDocs(agent_key) ==
    OddDocs \cup
    UNION {{[i \in 1..n |-> Heading(NumberedIds[agent_key][i], sevs[i])] :
              sevs \in [1..n -> Severities]} : n \in 0..MaxFindings}

\* what the validator's answer can be
BlockIds == {"GUARDIAN-001", "SENTINEL-009"}
BlockAdjusted == {"BLOCKER", "HIGH", "LOW", "REJECTED"}
ValidateBlocks == {ValidateBlock(id, "HIGH", adj) : id \in BlockIds, adj \in BlockAdjusted}
ValidatorDocs ==
    {<<NoiseTok>>} \cup UNION {[1..n -> ValidateBlocks] : n \in 0..MaxAdjustments}

\* what provider.complete_with_retry can return to run_review and run_validator
FailedCall == [success |-> FALSE, content |-> <<>>]
AgentResults(agent_key) ==
    {FailedCall} \cup {[success |-> TRUE, content |-> d] : d \in AgentDocs(agent_key)}
ValidatorResults == {FailedCall} \cup {[success |-> TRUE, content |-> d] : d \in ValidatorDocs}

\* a step, what it was about (the agent, or the path run_validator took) and
\* whether the provider's call in it succeeded
Step(name, what, ok) == [step |-> name, what |-> what, ok |-> ok]

\* a plausible slip: a failed agent counted as a blocker
error_result_as_blocker(agent_key) ==
    [agent |-> agent_key,
     status |-> "error",
     summary |-> [blockers |-> 1, high |-> 0, medium |-> 0, low |-> 0, total |-> 1],
     findings |-> <<>>,
     error |-> "failed"]

\* lines 372-379
error_result(agent_key) ==
    [agent |-> agent_key,
     status |-> "error",
     summary |-> [blockers |-> 0, high |-> 0, medium |-> 0, low |-> 0, total |-> 0],
     findings |-> <<>>,
     error |-> "failed"]

\* a findings file left by an earlier run
StaleFiles == ("guardian" :> parse_findings_markdown(<<Heading("GUARDIAN-001", "LOW")>>, "guardian"))

InitRun ==
    /\ pc = "start"
    /\ dry_run = FALSE
    /\ valid_agents = <<>>
    /\ idx = 1
    /\ all_findings = <<>>
    /\ json_files \in {<<>>, StaleFiles}
    /\ validation_stats = <<>>
    /\ verdict = "none"
    /\ exit_code = -1
    /\ report = <<>>
    /\ archive = <<>>
    /\ steps = <<>>
    /\ ci = FALSE
    /\ process_exit = -1

IdleRun ==
    /\ pc = "idle"
    /\ dry_run = FALSE
    /\ valid_agents = <<>>
    /\ idx = 1
    /\ all_findings = <<>>
    /\ json_files = <<>>
    /\ validation_stats = <<>>
    /\ verdict = "none"
    /\ exit_code = -1
    /\ report = <<>>
    /\ archive = <<>>
    /\ steps = <<>>
    /\ ci = FALSE
    /\ process_exit = -1

Return(code) ==
    /\ exit_code' = code
    /\ pc' = "done"

\* run_review, lines 166-317: the checks, the scan, the provider
\* ci_flag is --ci (ccl.py 80, rc.py 44), env_ci the CI environment variables
\* of lines 173-178
Start(project_exists, cc_dir_exists, ci_flag, env_ci, dry, agents, start_from, provider_ok) ==
    /\ pc = "start"
    /\ dry_run' = dry
    /\ ci' = ci_flag
    /\ UNCHANGED <<idx, all_findings, validation_stats, verdict, report, archive,
                   process_exit>>
    /\ UNCHANGED <<verdictVars, retryVars, auxVars>>
    /\ IF ~project_exists
       THEN Return(12) /\ UNCHANGED <<valid_agents, json_files, steps>>
       ELSE IF ~cc_dir_exists /\ ~((ci_flag \/ env_ci) \/ dry)
       THEN Return(12) /\ UNCHANGED <<valid_agents, json_files, steps>>
       ELSE IF resolve_agents(agents) = <<>>
       THEN Return(11) /\ UNCHANGED <<valid_agents, json_files, steps>>
       ELSE /\ valid_agents' = cut_start_from(resolve_agents(agents), start_from)
            /\ steps' = Append(steps, Step("scan", "", TRUE))
            /\ IF ~dry /\ ~provider_ok
               THEN Return(13) /\ UNCHANGED json_files
               ELSE /\ json_files' = <<>>       \* remove_working_findings
                    /\ pc' = "agents"
                    /\ UNCHANGED exit_code

\* a plausible slip: the validator started as soon as one agent has answered
AfterAgent_first_only == "validate"

\* the agent loop goes on until valid_agents is used up
AfterAgent == IF idx = Len(valid_agents) THEN "validate" ELSE "agents"

\* one iteration of the agent loop in a dry run, lines 323-332 and 384-421
AgentDryRun ==
    /\ pc = "agents"
    /\ dry_run
    /\ LET agent_key == valid_agents[idx]
           parsed == parse_findings_markdown(MOCK_FINDINGS(agent_key), agent_key)
       IN  /\ all_findings' = DictSet(all_findings, agent_key, parsed)
           /\ json_files' = (agent_key :> parsed) @@ json_files
           /\ steps' = Append(steps, Step("mock", agent_key, TRUE))
    /\ idx' = idx + 1
    /\ pc' = AfterAgent
    /\ UNCHANGED <<dry_run, valid_agents, validation_stats, verdict, exit_code, report,
                   archive>>
    /\ UNCHANGED <<ci, process_exit>>
    /\ UNCHANGED <<verdictVars, retryVars, auxVars>>

\* one iteration of the agent loop with a provider, lines 323-421; result is
\* what provider.complete_with_retry returned
AgentCall(result) ==
    /\ pc = "agents"
    /\ ~dry_run
    /\ result \in AgentResults(valid_agents[idx])
    /\ LET agent_key == valid_agents[idx]
       IN  /\ steps' = Append(steps, Step("call", agent_key, result.success))
           /\ IF ~result.success
              THEN /\ all_findings' = DictSet(all_findings, agent_key, error_result(agent_key))
                   /\ UNCHANGED json_files
              ELSE \E parsed \in {parse_findings_markdown(result.content, agent_key)} :
                       /\ all_findings' = DictSet(all_findings, agent_key, parsed)
                       /\ json_files' = (agent_key :> parsed) @@ json_files
    /\ idx' = idx + 1
    /\ pc' = AfterAgent
    /\ UNCHANGED <<dry_run, valid_agents, validation_stats, verdict, exit_code, report,
                   archive>>
    /\ UNCHANGED <<ci, process_exit>>
    /\ UNCHANGED <<verdictVars, retryVars, auxVars>>

\* line 424 with skip_validation set, no agent result, or no provider (dry run)
SkipValidation(skip_validation) ==
    /\ pc = "validate"
    /\ skip_validation \/ Len(all_findings) = 0 \/ dry_run
    /\ pc' = "synthesize"
    /\ UNCHANGED <<dry_run, valid_agents, idx, all_findings, json_files, validation_stats,
                   verdict, exit_code, report, archive, steps>>
    /\ UNCHANGED <<ci, process_exit>>
    /\ UNCHANGED <<verdictVars, retryVars, auxVars>>

\* a plausible slip: the findings files left as the agent loop wrote them
reexport_never(findings_dict, stats, files) == files

\* lines 433-437: the findings files written again
reexport(findings_dict, stats, files) ==
    IF Get(stats, "downgraded", 0) > 0 \/ Get(stats, "rejected", 0) > 0
    THEN [k \in Keys(findings_dict) \cup DOMAIN files |->
             IF k \in Keys(findings_dict) THEN Lookup(findings_dict, k) ELSE files[k]]
    ELSE files

\* lines 424-437: run_validator and the re-export; result is what the
\* provider returns if run_validator calls it
Validate(result) ==
    /\ pc = "validate"
    /\ ~dry_run /\ Len(all_findings) > 0
    /\ \E v \in {run_validator(all_findings, dry_run, result)} :
           /\ all_findings' = v.findings
           /\ validation_stats' = v.stats
           /\ json_files' = reexport(v.findings, v.stats, json_files)
           /\ steps' = Append(steps, Step("validate", v.path, v.path # "failed"))
    /\ pc' = "synthesize"
    /\ UNCHANGED <<dry_run, valid_agents, idx, verdict, exit_code, report, archive>>
    /\ UNCHANGED <<ci, process_exit>>
    /\ UNCHANGED <<verdictVars, retryVars, auxVars>>

\* line 440 not taken: return 0
SkipSynthesis(skip_synthesis) ==
    /\ pc = "synthesize"
    /\ skip_synthesis \/ Len(all_findings) = 0
    /\ Return(0)
    /\ UNCHANGED <<dry_run, valid_agents, idx, all_findings, json_files, validation_stats,
                   verdict, report, archive, steps>>
    /\ UNCHANGED <<ci, process_exit>>
    /\ UNCHANGED <<verdictVars, retryVars, auxVars>>

\* lines 440-471: the verdict, the exit code, the report
Synthesize ==
    /\ pc = "synthesize"
    /\ Len(all_findings) > 0
    /\ verdict' = calculate_verdict(all_findings)
    /\ exit_code' = get_exit_code(calculate_verdict(all_findings))
    /\ report' = generate_synthesis_report(all_findings)
    /\ steps' = Append(steps, Step("synthesize", "", TRUE))
    /\ pc' = "archive"
    /\ UNCHANGED <<dry_run, valid_agents, idx, all_findings, json_files, validation_stats,
                   archive>>
    /\ UNCHANGED <<ci, process_exit>>
    /\ UNCHANGED <<verdictVars, retryVars, auxVars>>

\* lines 473-502: the archive, return exit_code
Archive ==
    /\ pc = "archive"
    /\ archive' = export_run_archive(all_findings, [verdict |-> verdict, exit_code |-> exit_code])
    /\ steps' = Append(steps, Step("archive", "", TRUE))
    /\ pc' = "done"
    /\ UNCHANGED <<dry_run, valid_agents, idx, all_findings, json_files, validation_stats,
                   verdict, exit_code, report>>
    /\ UNCHANGED <<ci, process_exit>>
    /\ UNCHANGED <<verdictVars, retryVars, auxVars>>

\* ccl.py 17 and 62-65, rc.py 19: click refuses a --project path that does not
\* exist (usage error, status 2), ccl without --project leaves with 11;
\* run_review is not called
ClickReject(status) ==
    /\ pc = "start"
    /\ process_exit' = status
    /\ pc' = "exited"
    /\ UNCHANGED <<dry_run, valid_agents, idx, all_findings, json_files, validation_stats,
                   verdict, exit_code, report, archive, steps, ci>>
    /\ UNCHANGED <<verdictVars, retryVars, auxVars>>

\* ccl.py 97-98, rc.py 56-57: "if ci: sys.exit(exit_code)", else the command
\* function returns and the process ends with status 0
CliExit ==
    /\ pc = "done"
    /\ process_exit' = IF ci THEN exit_code ELSE 0
    /\ pc' = "exited"
    /\ UNCHANGED <<dry_run, valid_agents, idx, all_findings, json_files, validation_stats,
                   verdict, exit_code, report, archive, steps, ci>>
    /\ UNCHANGED <<verdictVars, retryVars, auxVars>>

NextRun ==
    \/ /\ pc = "start"
       /\ \E project_exists, cc_dir_exists, ci_flag, env_ci, dry, provider_ok \in BOOLEAN :
            \E agents \in {<<>>} \cup AgentArgs :
              \E start_from \in {""} \cup allowed_agents :
                Start(project_exists, cc_dir_exists, ci_flag, env_ci, dry, agents, start_from,
                      provider_ok)
    \/ \E status \in {2, 11} : ClickReject(status)
    \/ CliExit
    \/ AgentDryRun
    \/ /\ pc = "agents" /\ ~dry_run
       /\ \E result \in AgentResults(valid_agents[idx]) : AgentCall(result)
    \/ \E skip_validation \in BOOLEAN : SkipValidation(skip_validation)
    \/ /\ pc = "validate"
       /\ \E result \in ValidatorResults : Validate(result)
    \/ \E skip_synthesis \in BOOLEAN : SkipSynthesis(skip_synthesis)
    \/ Synthesize
    \/ Archive

NextRetry ==
    /\ rpc = "loop"
    /\ \E result \in CompletionResults : RetryAttempt(result)

NextVerdict == CalculateVerdict

-----------------------------------------------------------------------------
(* core/calibration.py: the calibration store                              *)
(*                                                                         *)
(* A value of the calibration dict is [type, text]: a str, or what a plain *)
(* YAML scalar resolves to otherwise.  calibration.yaml is a sequence of   *)
(* lines [section, first, key, style, text]; first marks the "- " that     *)
(* starts a list item.                                                     *)

MaxCalls == 3

Str(t) == [type |-> "str", text |-> t]
NoneValue == [type |-> "null", text |-> ""]

\* texts that a plain scalar resolves to something other than a str
NullTexts == {"", "null"}
IntTexts == {"42"}
DateTexts == {"2026-11-05"}

\* yaml.safe_load on a plain scalar
YamlResolve(text) ==
    IF text \in NullTexts THEN NoneValue
    ELSE IF text \in IntTexts THEN [type |-> "int", text |-> text]
    ELSE IF text \in DateTexts THEN [type |-> "date", text |-> text]
    ELSE Str(text)

\* yaml.dump on a scalar: a str is quoted when its plain form would not be
\* read back as a str
scalar_style(value) ==
    IF value.type = "str" /\ YamlResolve(value.text).type # "str" THEN "quoted" ELSE "plain"

scalar_text(value) == IF value.type = "null" THEN "null" ELSE value.text

load_scalar(line) == IF line.style = "quoted" THEN Str(line.text) ELSE YamlResolve(line.text)

\* the key order of an entry (sort_keys=False keeps the order of insertion)
ReviewedKeys == <<"finding_id", "agent", "title", "file", "original_severity",
                  "adjusted_severity", "verdict", "reason", "reviewed_at">>
RuleKeys == <<"rule", "applies_to", "severity_cap", "added_at">>

dump_entry(entry, keys, section) ==
    LET present == SelectSeq(keys, LAMBDA k : k \in DOMAIN entry)
    IN  [i \in 1..Len(present) |->
            [section |-> section, first |-> (i = 1), key |-> present[i],
             style |-> scalar_style(entry[present[i]]),
             text |-> scalar_text(entry[present[i]])]]

RECURSIVE dump_list(_, _, _)
dump_list(entries, keys, section) ==
    IF entries = <<>> THEN <<>>
    ELSE dump_entry(Head(entries), keys, section) \o dump_list(Tail(entries), keys, section)

\* save_calibration, lines 35-48
yaml_dump(calibration) ==
    dump_list(calibration.reviewed_findings, ReviewedKeys, "reviewed_findings")
        \o dump_list(calibration.project_rules, RuleKeys, "project_rules")

\* the items of one section of the file, in file order
load_list(lines, section) ==
    LET mine == SelectSeq(lines, LAMBDA l : l.section = section)
        starts == {i \in 1..Len(mine) : mine[i].first}
        nth(n) == CHOOSE i \in starts : Cardinality({j \in starts : j < i}) = n - 1
        last(i) == IF \E j \in starts : j > i
                   THEN (CHOOSE j \in starts : j > i /\ \A k \in starts : k > i => j <= k) - 1
                   ELSE Len(mine)
        item(i) == [k \in {mine[j].key : j \in i..last(i)} |->
                       load_scalar(mine[CHOOSE j \in i..last(i) :
                                           mine[j].key = k
                                           /\ \A m \in (j + 1)..last(i) : mine[m].key # k])]
    IN  [n \in 1..Cardinality(starts) |-> item(nth(n))]

EmptyCalibration == [reviewed_findings |-> <<>>, project_rules |-> <<>>]

\* load_calibration, lines 19-32; file is [exists, readable, lines]
load_calibration(file) ==
    IF ~file.exists THEN EmptyCalibration
    ELSE IF ~file.readable THEN EmptyCalibration
    ELSE [reviewed_findings |-> load_list(file.lines, "reviewed_findings"),
          project_rules |-> load_list(file.lines, "project_rules")]

save_calibration(calibration) ==
    [exists |-> TRUE, readable |-> TRUE, lines |-> yaml_dump(calibration)]

\* str.upper on the severities that are given
upper(text) ==
    CASE text = "low" -> "LOW"
      [] text = "medium" -> "MEDIUM"
      [] text = "rejected" -> "REJECTED"
      [] OTHER -> text

Today == "2026-11-05"

\* lines 67-77; title and file_path are [some, val]
reviewed_entry(finding_id, agent, original_severity, adjusted_severity, v, reason, file_path, title) ==
    [finding_id |-> Str(finding_id),
     agent |-> Str(agent),
     title |-> Str(IF title.some THEN title.val ELSE ""),
     file |-> Str(IF file_path.some THEN file_path.val ELSE ""),
     original_severity |-> Str(upper(original_severity)),
     adjusted_severity |-> Str(upper(adjusted_severity)),
     verdict |-> Str(v),
     reason |-> Str(reason),
     reviewed_at |-> Str(Today)]

\* f.get("finding_id")
entry_id(f) == IF "finding_id" \in DOMAIN f THEN f["finding_id"] ELSE NoneValue

\* a plausible slip: the entry appended without removing the old one
replace_reviewed_append_only(reviewed_findings, entry) == Append(reviewed_findings, entry)

\* lines 79-84
replace_reviewed(reviewed_findings, entry) ==
    Append(SelectSeq(reviewed_findings, LAMBDA f : entry_id(f) # entry.finding_id), entry)

\* lines 160, 175, 187: how many entries of a group go into the prompt
FalsePositiveExamples == 10
AdjustedExamples == 10
ConfirmedExamples == 5

\* str.lower on the agent names that occur
lower(text) ==
    CASE text = "GUARDIAN" -> "guardian"
      [] text = "SENTINEL" -> "sentinel"
      [] OTHER -> text

\* a loaded value inside an f-string
format_value(value) == IF value.type = "null" THEN "None" ELSE value.text

\* f.get(key, default) inside an f-string
format_field(f, key, default) == IF key \in DOMAIN f THEN format_value(f[key]) ELSE default

\* a plausible slip: items[:n], the oldest entries
first_n(items, n) == SubSeq(items, 1, Min(n, Len(items)))

\* items[-n:]
last_n(items, n) == SubSeq(items, Max(1, Len(items) - n + 1), Len(items))

\* lines 128-141: the rules for this agent, each with its cap if it has one
relevant_rules(rules, agent_key) ==
    LET mine == SelectSeq(rules, LAMBDA r :
                    (IF "applies_to" \in DOMAIN r THEN r.applies_to ELSE Str("all"))
                        \in {Str("all"), Str(agent_key)})
    IN  [i \in 1..Len(mine) |->
            [rule |-> format_value(mine[i].rule),
             severity_cap |-> IF "severity_cap" \in DOMAIN mine[i]
                                 /\ mine[i].severity_cap \notin {NoneValue, Str("")}
                              THEN format_value(mine[i].severity_cap) ELSE ""]]

\* lines 145-152: the reviewed findings of this agent with one verdict
reviewed_of(reviewed, agent_key, v) ==
    SelectSeq(reviewed, LAMBDA f :
        /\ lower(format_field(f, "agent", "")) = lower(agent_key)
        /\ "verdict" \in DOMAIN f
        /\ f.verdict = Str(v))

\* lines 161-166, 176-181, 188-191: the line written for an entry
example_line(f) ==
    [finding_id |-> format_field(f, "finding_id", "?"),
     title |-> format_field(f, "title", ""),
     file |-> format_field(f, "file", "?"),
     original_severity |-> format_value(f.original_severity),
     adjusted_severity |-> format_value(f.adjusted_severity),
     reason |-> format_field(f, "reason", "no reason given")]

example_lines(entries) == [i \in 1..Len(entries) |-> example_line(entries[i])]

\* build_calibration_context, lines 118-197: the lines of each section
build_calibration_context(file, agent_key) ==
    LET calibration == load_calibration(file)
        reviewed == calibration.reviewed_findings
    IN  [agent_key |-> agent_key,
         rules |-> relevant_rules(calibration.project_rules, agent_key),
         false_positives |->
             example_lines(last_n(reviewed_of(reviewed, agent_key, "false_positive"),
                                  FalsePositiveExamples)),
         adjusted |->
             example_lines(last_n(reviewed_of(reviewed, agent_key, "adjusted"),
                                  AdjustedExamples)),
         confirmed |->
             example_lines(last_n(reviewed_of(reviewed, agent_key, "confirmed"),
                                  ConfirmedExamples))]

FindingIds == {"GUARDIAN-001", "SENTINEL-002", "42"}
AgentOfId(finding_id) == IF finding_id = "SENTINEL-002" THEN "sentinel" ELSE "guardian"
TitleArgs == {[some |-> FALSE, val |-> ""], [some |-> TRUE, val |-> "SQL injection"]}

\* stores with distinct ids that earlier calls can have left
StoredEntry(finding_id, adjusted) ==
    reviewed_entry(finding_id, AgentOfId(finding_id), "HIGH", adjusted, "adjusted",
                   "earlier review", [some |-> FALSE, val |-> ""], [some |-> FALSE, val |-> ""])
StoredRule == [rule |-> Str("no raw SQL"), applies_to |-> Str("all"),
               severity_cap |-> NoneValue, added_at |-> Str(Today)]
AbsentFile == [exists |-> FALSE, readable |-> FALSE, lines |-> <<>>]
InitialFiles ==
    {AbsentFile,
     [exists |-> TRUE, readable |-> FALSE, lines |-> <<>>],
     save_calibration([reviewed_findings |-> <<StoredEntry("GUARDIAN-001", "MEDIUM")>>,
                       project_rules |-> <<StoredRule>>]),
     save_calibration([reviewed_findings |-> <<StoredEntry("42", "LOW"),
                                               StoredEntry("GUARDIAN-001", "MEDIUM")>>,
                       project_rules |-> <<>>])}

InitCalibration ==
    /\ cal_file \in InitialFiles
    /\ cal_file0 = cal_file
    /\ cal_calls = <<>>
    /\ cal_context = <<>>

IdleCalibration ==
    /\ cal_file = AbsentFile
    /\ cal_file0 = AbsentFile
    /\ cal_calls = <<>>
    /\ cal_context = <<>>

\* add_reviewed_finding, lines 51-89
AddReviewedFinding(finding_id, agent, original_severity, adjusted_severity, v, reason, file_path, title) ==
    /\ cal_context = <<>>
    /\ Len(cal_calls) < MaxCalls
    /\ LET calibration == load_calibration(cal_file)
           entry == reviewed_entry(finding_id, agent, original_severity, adjusted_severity,
                                   v, reason, file_path, title)
       IN  /\ cal_file' = save_calibration(
                   [calibration EXCEPT !.reviewed_findings = replace_reviewed(@, entry)])
           /\ cal_calls' = Append(cal_calls, entry)
    /\ UNCHANGED <<cal_file0, cal_context>>
    /\ UNCHANGED <<verdictVars, retryVars, runVars, parseVars, validateVars, scanVars, selectVars>>

\* add_project_rule, lines 92-116
AddProjectRule(rule, applies_to, severity_cap) ==
    /\ cal_context = <<>>
    /\ Len(cal_calls) < MaxCalls
    /\ LET calibration == load_calibration(cal_file)
           entry == [rule |-> Str(rule), applies_to |-> Str(applies_to),
                     severity_cap |-> IF severity_cap.some THEN Str(severity_cap.val)
                                      ELSE NoneValue,
                     added_at |-> Str(Today)]
       IN  /\ cal_file' = save_calibration(
                   [calibration EXCEPT !.project_rules = Append(@, entry)])
           /\ cal_calls' = Append(cal_calls, entry)
    /\ UNCHANGED <<cal_file0, cal_context>>
    /\ UNCHANGED <<verdictVars, retryVars, runVars, parseVars, validateVars, scanVars, selectVars>>

\* the prompt of an agent is built once the reviews are in
BuildContext(agent_key) ==
    /\ cal_context = <<>>
    /\ cal_context' = build_calibration_context(cal_file, agent_key)
    /\ UNCHANGED <<cal_file, cal_file0, cal_calls>>
    /\ UNCHANGED <<verdictVars, retryVars, runVars, parseVars, validateVars, scanVars, selectVars>>

NextCalibration ==
    \/ \E finding_id \in FindingIds, adjusted_severity \in {"low", "REJECTED"},
          title \in TitleArgs :
           AddReviewedFinding(finding_id, AgentOfId(finding_id), "HIGH", adjusted_severity,
                              IF adjusted_severity = "REJECTED" THEN "false_positive"
                              ELSE "adjusted",
                              "reviewed by hand", [some |-> FALSE, val |-> ""], title)
    \/ \E severity_cap \in {[some |-> FALSE, val |-> ""], [some |-> TRUE, val |-> "MEDIUM"]} :
           AddProjectRule("admin endpoints are behind JWT", "guardian", severity_cap)

-----------------------------------------------------------------------------
(* build_calibration_context after reviews on a filled store (SpecContext) *)

\* stores that many reviews have filled: more entries of one verdict than
\* the prompt takes, with a review of another agent among them
ReviewedAs(finding_id, agent, adjusted, v) ==
    reviewed_entry(finding_id, agent, "HIGH", adjusted, v, "earlier review",
                   [some |-> FALSE, val |-> ""], [some |-> FALSE, val |-> ""])
OldIds ==
    <<"GUARDIAN-101", "GUARDIAN-102", "GUARDIAN-103", "GUARDIAN-104", "GUARDIAN-105",
      "GUARDIAN-106", "GUARDIAN-107", "GUARDIAN-108", "GUARDIAN-109", "GUARDIAN-110">>
StoreOf(adjusted, v, n) ==
    save_calibration(
        [reviewed_findings |->
             <<ReviewedAs("GUARDIAN-001", "guardian", adjusted, v),
               ReviewedAs("SENTINEL-002", "sentinel", adjusted, v)>>
             \o [i \in 1..n |-> ReviewedAs(OldIds[i], "guardian", adjusted, v)],
         project_rules |-> <<StoredRule>>])
ContextStores ==
    {StoreOf("REJECTED", "false_positive", FalsePositiveExamples),
     StoreOf("MEDIUM", "adjusted", AdjustedExamples),
     StoreOf("HIGH", "confirmed", ConfirmedExamples)}
ContextIds == {"GUARDIAN-001", "SENTINEL-002", "GUARDIAN-200"}

InitContext ==
    /\ cal_file \in ContextStores
    /\ cal_file0 = cal_file
    /\ cal_calls = <<>>
    /\ cal_context = <<>>

NextContext ==
    \/ \E finding_id \in ContextIds, adjusted_severity \in {"low", "REJECTED", "HIGH"} :
           AddReviewedFinding(finding_id, AgentOfId(finding_id), "HIGH", adjusted_severity,
                              IF adjusted_severity = "REJECTED" THEN "false_positive"
                              ELSE IF adjusted_severity = "HIGH" THEN "confirmed"
                              ELSE "adjusted",
                              "reviewed by hand", [some |-> FALSE, val |-> ""],
                              [some |-> FALSE, val |-> ""])
    \/ \E applies_to \in {"all", "sentinel"} :
           AddProjectRule("admin endpoints are behind JWT", applies_to,
                          [some |-> TRUE, val |-> "MEDIUM"])
    \/ \E agent_key \in {"guardian", "sentinel"} : BuildContext(agent_key)

-----------------------------------------------------------------------------
(* parse_findings_markdown on any document (SpecParse) *)

MaxDocLen == 4

DocTokens ==
    {FenceTok, TextTok, StubTok("GUARDIAN-009"), LocationTok("a.py", None),
     LocationTok("a.py", Some(42)), LineTok(7)}
        \cup {Heading(id, sev) : id \in {"GUARDIAN-001", "GUARDIAN-002"}, sev \in {"HIGH", "LOW"}}

Documents == UNION {[1..n -> DocTokens] : n \in 0..MaxDocLen}

InitParse ==
    /\ pd_content \in Documents
    /\ pd_result = <<>>

IdleParse ==
    /\ pd_content = <<>>
    /\ pd_result = <<>>

\* one call of parse_findings_markdown, lines 48-202
ParseDocument ==
    /\ pd_result = <<>>
    /\ pd_result' = parse_findings_markdown(pd_content, "guardian")
    /\ UNCHANGED pd_content
    /\ UNCHANGED <<verdictVars, retryVars, runVars, calVars, validateVars, scanVars, selectVars>>

NextParse == ParseDocument

-----------------------------------------------------------------------------
(* run_validator on any findings and any validator answer (SpecValidate) *)

\* the results of one or two agents, as parse_findings_markdown leaves them
\* three findings, for the order of those left after a rejection
LongDocs ==
    {<<Heading("GUARDIAN-001", "HIGH"), Heading("GUARDIAN-002", first),
       Heading("GUARDIAN-003", last)>> : first \in {"HIGH", "LOW"}, last \in {"BLOCKER", "MEDIUM"}}
SecondAgentDocs ==
    {<<>>} \cup {<<Heading("SENTINEL-001", sev)>> : sev \in {"BLOCKER", "LOW"}}
ValidateDicts ==
    {<<[key |-> "guardian", data |-> parse_findings_markdown(doc, "guardian")]>> \o
     (IF more = <<>> THEN <<>>
      ELSE <<[key |-> "sentinel", data |-> parse_findings_markdown(more, "sentinel")]>>) :
        doc \in AgentDocs("guardian") \cup LongDocs, more \in SecondAgentDocs}

\* the validator's answers, its blocks naming the first two guardian findings
AnswerBlocks ==
    {ValidateBlock(id, "HIGH", adj) : id \in {"GUARDIAN-001", "GUARDIAN-002"},
                                      adj \in BlockAdjusted}
ValidatorAnswers ==
    {FailedCall}
        \cup {[success |-> TRUE, content |-> doc] :
                 doc \in {<<NoiseTok>>} \cup UNION {[1..n -> AnswerBlocks] : n \in 0..MaxAdjustments}}

InitValidate ==
    /\ va_findings \in ValidateDicts
    /\ va_result \in ValidatorAnswers
    /\ va_out = <<>>
    /\ va_again = <<>>

IdleValidate ==
    /\ va_findings = <<>>
    /\ va_result = FailedCall
    /\ va_out = <<>>
    /\ va_again = <<>>

\* one call of run_validator, lines 178-280
RunValidator ==
    /\ va_out = <<>>
    /\ va_out' = run_validator(va_findings, FALSE, va_result)
    /\ UNCHANGED <<va_findings, va_result, va_again>>
    /\ UNCHANGED <<verdictVars, retryVars, runVars, calVars, parseVars, scanVars, selectVars>>

\* _apply_adjustments, lines 120-175, called once more with the adjustments
\* of the same answer on the findings it has produced
ApplyAgain ==
    /\ va_out # <<>>
    /\ va_out.path \in {"applied", "no_adjustments"}
    /\ va_again = <<>>
    /\ va_again' = apply_adjustments(va_out.findings, parse_validation_results(va_result.content))
    /\ UNCHANGED <<va_findings, va_result, va_out>>
    /\ UNCHANGED <<verdictVars, retryVars, runVars, calVars, parseVars, scanVars, selectVars>>

NextValidate ==
    \/ RunValidator
    \/ ApplyAgain

-----------------------------------------------------------------------------
(* core/scanner.py: get_file_tier                                          *)
(*                                                                         *)
(* A file name is the sequence of its words and of the "." and "_" between *)
(* them; a path is [dirs, name], dirs being the directories from the       *)
(* project root down to the file.                                          *)

MaxDepth == 3

Dot(a, b) == <<a, ".", b>>

\* str.lower on the words that occur
lower_word(w) ==
    CASE w = "README" -> "readme"
      [] w = "Dockerfile" -> "dockerfile"
      [] w = "App" -> "app"
      [] w = "Tests" -> "tests"
      [] OTHER -> w

lower_name(name) == [i \in 1..Len(name) |-> lower_word(name[i])]

\* lines 39-45
TIER1_ALWAYS ==
    {Dot("main", "py"), Dot("app", "py"), Dot("server", "js"), Dot("server", "ts"),
     Dot("nginx", "conf"), <<"dockerfile">>, Dot("manage", "py"), Dot("wsgi", "py"),
     Dot("asgi", "py"), <<".", "env", ".", "example">>, Dot("requirements", "txt"),
     Dot("package", "json"), Dot("pyproject", "toml"), Dot("setup", "cfg"),
     <<"makefile">>, <<"rakefile">>, <<"gemfile">>, Dot("go", "mod"),
     Dot("cargo", "toml"), Dot("pom", "xml"), Dot("build", "gradle")}

\* lines 53-66
TIER2_DIRS == {"services", "core", "lib", "utils", "middleware", "api", "hooks",
               "controllers", "handlers", "routes", "endpoints"}
TIER3_DIRS == {"models", "schemas", "entities", "types"}
TEST_DIRS == {"tests", "test", "__tests__", "spec", "specs"}
DOC_DIRS == {"docs", "documentation", "doc"}
TIER6_DIRS == {"components", "pages", "views", "screens", "layouts", "templates"}
API_DIRS == {"services", "api", "endpoints", "controllers", "handlers", "routes"}

\* line 164: the directories that keep an ambiguous name out of tier 1
ambiguous_dirs == API_DIRS

\* name.startswith(word + sep)
starts_with(name, word, sep) == Len(name) >= 2 /\ name[1] = word /\ name[2] = sep

\* sep1 + word + sep2 in name
has_between(name, sep1, word, sep2) ==
    \E i \in 1..(Len(name) - 2) : name[i] = sep1 /\ name[i + 1] = word /\ name[i + 2] = sep2

\* _is_test_file, lines 130-139, on the lowered name
is_test_file(name) ==
    \/ starts_with(name, "test", "_")
    \/ has_between(name, "_", "test", ".")
    \/ has_between(name, ".", "test", ".")
    \/ has_between(name, ".", "Tests", ".")
    \/ has_between(name, ".", "spec", ".")
    \/ name = Dot("conftest", "py")

\* lines 187-193, on the words that occur: the name begins with the word
doc_words == {"readme", "contributing", "changelog", "license", "rollback", "migration",
              "deployment", "backup", "operations", "runbook", "install", "architecture"}

\* Path.suffix of the name as given, lowered
suffix(name) ==
    IF Len(name) >= 3 /\ name[Len(name) - 1] = "." THEN lower_word(name[Len(name)]) ELSE ""

any_part_in(dirs, names) == \E i \in 1..Len(dirs) : lower_word(dirs[i]) \in names

\* a plausible slip: test files of the business directories taken as tier 2
tier2_rule_with_tests(dirs, name) == any_part_in(dirs, TIER2_DIRS)

\* lines 174-176
tier2_rule(dirs, name) == any_part_in(dirs, TIER2_DIRS) /\ ~is_test_file(name)

\* get_file_tier, lines 148-203; the file lies under project_path
get_file_tier(path) ==
    LET name == lower_name(path.name)
        dirs == path.dirs
        nparts == Len(dirs) + 1
    IN  IF name \in TIER1_ALWAYS THEN 1
        ELSE IF starts_with(name, "docker-compose", ".") THEN 1
        ELSE IF ~any_part_in(dirs, ambiguous_dirs)
                /\ (name \in {Dot("settings", "py"), Dot("setup", "py")}
                    \/ starts_with(name, "config", "."))
        THEN 1
        ELSE IF name \in {Dot("index", "js"), Dot("index", "ts")} /\ nparts <= 3 THEN 1
        ELSE IF tier2_rule(dirs, name) THEN 2
        ELSE IF any_part_in(dirs, TIER3_DIRS) THEN 3
        ELSE IF is_test_file(name) \/ any_part_in(dirs, TEST_DIRS) THEN 4
        ELSE IF name[1] \in doc_words THEN 5
        ELSE IF any_part_in(dirs, DOC_DIRS) /\ suffix(path.name) = "md" THEN 5
        ELSE IF any_part_in(dirs, TIER6_DIRS) THEN 6
        ELSE 7

\* the paths that are classified
DirNames == {"src", "data", "services", "core", "api", "hooks", "models", "tests", "docs",
             "components"}
FileNames ==
    {Dot("main", "py"), <<"Dockerfile">>, Dot("docker-compose", "yml"), Dot("settings", "py"),
     Dot("setup", "py"), Dot("config", "py"), <<"config", ".", "test", ".", "js">>,
     Dot("index", "js"), Dot("x", "py"), <<"test", "_", "x", ".", "py">>, Dot("README", "md"),
     Dot("guide", "md"), Dot("App", "tsx"), Dot("data", "csv")}
ScanPaths ==
    {[dirs |-> d, name |-> n] : d \in UNION {[1..k -> DirNames] : k \in 0..MaxDepth},
                                n \in FileNames}

InitScan ==
    /\ sc_path \in ScanPaths
    /\ sc_tier = 0

IdleScan ==
    /\ sc_path = [dirs |-> <<>>, name |-> Dot("main", "py")]
    /\ sc_tier = 0

\* one call of get_file_tier
GetFileTier ==
    /\ sc_tier = 0
    /\ sc_tier' = get_file_tier(sc_path)
    /\ UNCHANGED sc_path
    /\ UNCHANGED <<verdictVars, retryVars, runVars, calVars, parseVars, validateVars, selectVars>>

NextScan == GetFileTier

-----------------------------------------------------------------------------
(* core/scanner.py: get_source_files_content                               *)
(*                                                                         *)
(* The project on disk is a sequence of files [path, size, kind, exists],  *)
(* all of an included extension and outside the excluded directories; a    *)
(* file is named by its position.  kind says what read_text gives: "text", *)
(* "blank" (nothing left after strip) or "unreadable" (read_text raises).  *)
(* The scan runs in the steps of the code, and a file can be deleted by    *)
(* another process between two of them.  The walk meets the files in the   *)
(* order of the sequence; only the order of files alike in tier and size   *)
(* bears on the selection, so files are written by tier and size, those    *)
(* alike in both in any order.                                             *)

MaxProjectFiles == 3
MaxBadFiles == 1
MaxDeleted == 1
MaxRaceFiles == 2

\* lines 238-241, the defaults the orchestrator leaves alone
min_file_bytes == 50
max_file_kb == 50
DefaultFileCap == 5

\* line 68
TIER_FILE_CAPS == (1 :> 15) @@ (2 :> 15) @@ (3 :> 8) @@ (4 :> 10) @@ (5 :> 8) @@ (6 :> 10) @@ (7 :> 5)

\* TIER_FILE_CAPS.get(t, 5)
file_cap_of(t) == IF t \in DOMAIN TIER_FILE_CAPS THEN TIER_FILE_CAPS[t] ELSE DefaultFileCap

\* lines 244-246; int(max_bytes * 0.30) is the floor of 30 percent
scan_limits(max_files, max_size_kb) ==
    [max_files |-> max_files,
     max_bytes |-> max_size_kb * 1024,
     max_file_bytes |-> max_file_kb * 1024,
     tier_size_cap |-> (max_size_kb * 1024 * 30) \div 100]

\* the elements of a list
Range(items) == {items[i] : i \in 1..Len(items)}

\* comparison of two tuples of integers of one length, as Python compares tuples
RECURSIVE tuple_less(_, _)
tuple_less(a, b) ==
    IF a = <<>> THEN FALSE
    ELSE IF a[1] # b[1] THEN a[1] < b[1]
    ELSE tuple_less(Tail(a), Tail(b))

\* x put behind every element whose key is not greater than its own
RECURSIVE insert_by(_, _, _)
insert_by(sorted, x, key) ==
    IF sorted = <<>> THEN <<x>>
    ELSE IF tuple_less(key[x], key[sorted[1]]) THEN <<x>> \o sorted
    ELSE <<sorted[1]>> \o insert_by(Tail(sorted), x, key)

\* list.sort(key=...): stable, ascending; key maps each element to a tuple
RECURSIVE list_sort(_, _)
list_sort(items, key) ==
    IF items = <<>> THEN <<>>
    ELSE insert_by(list_sort(SubSeq(items, 1, Len(items) - 1), key), items[Len(items)], key)

\* the elements of a list that satisfy a test, in order
RECURSIVE filter_list(_, _)
filter_list(items, keep) ==
    IF items = <<>> THEN <<>>
    ELSE (IF items[1] \in keep THEN <<items[1]>> ELSE <<>>) \o filter_list(Tail(items), keep)

\* f.stat() raises FileNotFoundError on a deleted file
stat_raises(disk, items) == \E i \in 1..Len(items) : ~disk[items[i][1]].exists

\* lines 250-256: os.walk lists the files that exist
walk(disk) == filter_list([i \in 1..Len(disk) |-> <<i>>], {<<i>> : i \in {j \in 1..Len(disk) : disk[j].exists}})

\* lines 261-264
size_filter(disk, all_files, limits) ==
    filter_list(all_files,
                {<<i>> : i \in {j \in 1..Len(disk) :
                    min_file_bytes <= disk[j].size /\ disk[j].size <= limits.max_file_bytes}})

\* lines 267-269: (f, tier) for each sized file
classify(disk, sized_files) ==
    [i \in 1..Len(sized_files) |-> <<sized_files[i][1], get_file_tier(disk[sized_files[i][1]].path)>>]

\* key=lambda x: x[0].stat().st_size, reverse=True: equal sizes keep their order
size_desc_key(disk, items) == [x \in Range(items) |-> <<0 - disk[x[1]].size>>]

\* key=lambda x: (x[1], -x[0].stat().st_size)
tier_size_key(disk, items) == [x \in Range(items) |-> <<x[2], 0 - disk[x[1]].size>>]

\* lines 272-276: tier_groups.get(t, []) for t in 1..7, each sorted by size descending
group_by_tier(disk, tiered) ==
    [t \in 1..7 |->
        LET group == filter_list(tiered, {x \in Range(tiered) : x[2] = t})
        IN  list_sort(group, size_desc_key(disk, group))]

\* a plausible slip: pass 1 without the byte cap of a tier
over_tier_cap_never(tier_size, fsize, tier_size_cap) == FALSE

\* line 295
over_tier_cap(tier_size, fsize, tier_size_cap) == tier_size + fsize > tier_size_cap

\* a plausible slip: the overall byte budget not looked at
over_budget_never(total_size, fsize, max_bytes) == FALSE

\* lines 293, 313
over_budget(total_size, fsize, max_bytes) == total_size + fsize > max_bytes

\* lines 287-300: the loop over one tier's group from position i on;
\* st is [selected, total_size, tier_count, tier_size, raised]
RECURSIVE pass1_group(_, _, _, _, _, _)
pass1_group(disk, group, i, file_cap, limits, st) ==
    IF i > Len(group) \/ st.raised THEN st
    ELSE IF st.tier_count >= file_cap THEN st
    ELSE IF Len(st.selected) >= limits.max_files THEN st
    ELSE IF ~disk[group[i][1]].exists THEN [st EXCEPT !.raised = TRUE]
    ELSE LET fsize == disk[group[i][1]].size
         IN  IF over_budget(st.total_size, fsize, limits.max_bytes)
                THEN pass1_group(disk, group, i + 1, file_cap, limits, st)
             ELSE IF over_tier_cap(st.tier_size, fsize, limits.tier_size_cap)
                THEN pass1_group(disk, group, i + 1, file_cap, limits, st)
             ELSE pass1_group(disk, group, i + 1, file_cap, limits,
                              [st EXCEPT !.selected = Append(@, group[i]),
                                         !.total_size = @ + fsize,
                                         !.tier_size = @ + fsize,
                                         !.tier_count = @ + 1])

\* lines 279-300: the tiers from t up to 7
RECURSIVE pass1(_, _, _, _, _)
pass1(disk, tier_groups, t, limits, st) ==
    IF t > 7 \/ st.raised THEN st
    ELSE pass1(disk, tier_groups, t + 1, limits,
               pass1_group(disk, tier_groups[t], 1, file_cap_of(t), limits,
                           [st EXCEPT !.tier_count = 0, !.tier_size = 0]))

\* a plausible slip: pass 2 leaves out the tiers that pass 1 took files from
remaining_of_untouched_tiers(tiered, selected) ==
    filter_list(tiered, {x \in Range(tiered) : \A y \in Range(selected) : y[2] # x[2]})

\* lines 304-307
remaining_of(tiered, selected) == filter_list(tiered, Range(tiered) \ Range(selected))

\* lines 309-316: the loop of pass 2 from position i on
RECURSIVE pass2_loop(_, _, _, _, _)
pass2_loop(disk, remaining, i, limits, st) ==
    IF i > Len(remaining) \/ st.raised THEN st
    ELSE IF Len(st.selected) >= limits.max_files THEN st
    ELSE IF ~disk[remaining[i][1]].exists THEN [st EXCEPT !.raised = TRUE]
    ELSE LET fsize == disk[remaining[i][1]].size
         IN  IF over_budget(st.total_size, fsize, limits.max_bytes)
                THEN pass2_loop(disk, remaining, i + 1, limits, st)
             ELSE pass2_loop(disk, remaining, i + 1, limits,
                             [st EXCEPT !.selected = Append(@, remaining[i]),
                                        !.total_size = @ + fsize])

\* lines 303-316
pass2(disk, tiered, limits, st) ==
    IF Len(st.selected) < limits.max_files /\ st.total_size < limits.max_bytes
    THEN LET remaining == remaining_of(tiered, st.selected)
         IN  IF stat_raises(disk, remaining) THEN [st EXCEPT !.raised = TRUE]
             ELSE pass2_loop(disk, list_sort(remaining, tier_size_key(disk, remaining)), 1,
                             limits, st)
    ELSE st

\* round(actual_size / 1024, 1), in tenths of a KB
size_kb_tenths(actual_size) == (actual_size * 20 + 1024) \div 2048

\* lines 325-342: the loop that reads the selected files, from position i on;
\* out is [parts, file_count, actual_size, raised]
RECURSIVE emit_loop(_, _, _, _, _)
emit_loop(disk, selected, i, limits, out) ==
    IF i > Len(selected) \/ out.raised THEN out
    ELSE IF out.file_count >= limits.max_files THEN out
    ELSE IF ~disk[selected[i][1]].exists THEN [out EXCEPT !.raised = TRUE]
    ELSE LET fsize == disk[selected[i][1]].size
         IN  IF out.actual_size + fsize > limits.max_bytes
                THEN emit_loop(disk, selected, i + 1, limits, out)
             ELSE IF disk[selected[i][1]].kind # "text"
                THEN emit_loop(disk, selected, i + 1, limits, out)
             ELSE emit_loop(disk, selected, i + 1, limits,
                            [out EXCEPT !.parts = Append(@, selected[i][1]),
                                        !.actual_size = @ + fsize,
                                        !.file_count = @ + 1])

\* lines 344-358
scan_result(out, total_eligible) ==
    [parts |-> out.parts,
     file_count |-> out.file_count,
     total_size_kb |-> IF out.file_count = 0 THEN 0 ELSE size_kb_tenths(out.actual_size),
     total_eligible |-> total_eligible]

NoSelection == [selected |-> <<>>, total_size |-> 0, tier_count |-> 0, tier_size |-> 0,
                raised |-> FALSE]
NoOutput == [parts |-> <<>>, file_count |-> 0, actual_size |-> 0, raised |-> FALSE]

\* get_source_files_content on a disk that nothing else touches, lines 236-358
quiet_scan(disk, max_files, max_size_kb) ==
    LET limits == scan_limits(max_files, max_size_kb)
        all_files == walk(disk)
        tiered == classify(disk, size_filter(disk, all_files, limits))
        st1 == pass1(disk, group_by_tier(disk, tiered), 1, limits, NoSelection)
        st2 == pass2(disk, tiered, limits, st1)
        selected == list_sort(st2.selected, tier_size_key(disk, st2.selected))
    IN  scan_result(emit_loop(disk, selected, 1, limits, NoOutput), Len(all_files))

\* the files of the projects that are scanned: one path for each of four tiers
TierPaths ==
    {[dirs |-> <<>>, name |-> Dot("main", "py")],
     [dirs |-> <<"services">>, name |-> Dot("x", "py")],
     [dirs |-> <<"tests">>, name |-> <<"test", "_", "x", ".", "py">>],
     [dirs |-> <<"src">>, name |-> Dot("x", "py")]}
FileSizes == {40, 50, 300, 400}
FileKinds == {"text", "blank", "unreadable"}
MaxFilesArgs == {1, 2, 75}
MaxSizeKbArgs == {1}

\* five small files of the last tier, which a project can start with
SmallFile == [path |-> [dirs |-> <<"src">>, name |-> Dot("x", "py")], size |-> 50,
              kind |-> "text", exists |-> TRUE]
FiveSmallFiles == [i \in 1..5 |-> SmallFile]

\* the tier and the size of a file, as the sorts compare them
class_key(file) == <<get_file_tier(file.path), file.size>>

BadFiles(disk) == {i \in 1..Len(disk) : disk[i].kind # "text"}
DeletedFiles(disk) == {i \in 1..Len(disk) : ~disk[i].exists}

InitSelect ==
    /\ ss_disk \in {<<>>, FiveSmallFiles}
    /\ ss_created = 0
    /\ ss_pc = "project"
    /\ ss_limits = scan_limits(75, 750)
    /\ ss_all_files = <<>>
    /\ ss_tiered = <<>>
    /\ ss_tier_groups = [t \in 1..7 |-> <<>>]
    /\ ss_selected = NoSelection
    /\ ss_result = <<>>

IdleSelect ==
    /\ ss_disk = <<>>
    /\ ss_created = 0
    /\ ss_pc = "idle"
    /\ ss_limits = scan_limits(75, 750)
    /\ ss_all_files = <<>>
    /\ ss_tiered = <<>>
    /\ ss_tier_groups = [t \in 1..7 |-> <<>>]
    /\ ss_selected = NoSelection
    /\ ss_result = <<>>

scanState == <<ss_limits, ss_all_files, ss_tiered, ss_tier_groups, ss_selected, ss_result>>
otherThanSelect == <<verdictVars, retryVars, runVars, calVars, parseVars, validateVars, scanVars>>

\* a file is written into the project before the scan
CreateFile(path, size, kind) ==
    /\ ss_pc = "project"
    /\ ss_created < MaxProjectFiles
    /\ kind # "text" => Cardinality(BadFiles(ss_disk)) < MaxBadFiles
    /\ ss_created > 0 =>
          ~tuple_less(class_key([path |-> path, size |-> size]), class_key(ss_disk[Len(ss_disk)]))
    /\ ss_disk' = Append(ss_disk, [path |-> path, size |-> size, kind |-> kind, exists |-> TRUE])
    /\ ss_created' = ss_created + 1
    /\ UNCHANGED <<ss_pc, scanState>>
    /\ UNCHANGED otherThanSelect

\* another process deletes a file while the scan runs
DeleteFile(f) ==
    /\ ss_pc \in {"walked", "sized", "grouped", "pass1", "pass2", "sorted"}
    /\ Len(ss_disk) <= MaxRaceFiles
    /\ f \in 1..Len(ss_disk)
    /\ ss_disk[f].exists
    /\ Cardinality(DeletedFiles(ss_disk)) < MaxDeleted
    /\ ss_disk' = [ss_disk EXCEPT ![f].exists = FALSE]
    /\ UNCHANGED <<ss_created, ss_pc, scanState>>
    /\ UNCHANGED otherThanSelect

\* lines 244-258: the call and the walk
Walk(max_files, max_size_kb) ==
    /\ ss_pc = "project"
    /\ ss_limits' = scan_limits(max_files, max_size_kb)
    /\ ss_all_files' = walk(ss_disk)
    /\ ss_pc' = "walked"
    /\ UNCHANGED <<ss_disk, ss_created, ss_tiered, ss_tier_groups, ss_selected, ss_result>>
    /\ UNCHANGED otherThanSelect

\* lines 261-264
SizeFilter ==
    /\ ss_pc = "walked"
    /\ IF stat_raises(ss_disk, ss_all_files)
       THEN ss_pc' = "raised" /\ UNCHANGED ss_tiered
       ELSE /\ ss_tiered' = classify(ss_disk, size_filter(ss_disk, ss_all_files, ss_limits))
            /\ ss_pc' = "sized"
    /\ UNCHANGED <<ss_disk, ss_created, ss_limits, ss_all_files, ss_tier_groups, ss_selected,
                   ss_result>>
    /\ UNCHANGED otherThanSelect

\* lines 267-276
GroupByTier ==
    /\ ss_pc = "sized"
    /\ IF stat_raises(ss_disk, ss_tiered)
       THEN ss_pc' = "raised" /\ UNCHANGED ss_tier_groups
       ELSE /\ ss_tier_groups' = group_by_tier(ss_disk, ss_tiered)
            /\ ss_pc' = "grouped"
    /\ UNCHANGED <<ss_disk, ss_created, ss_limits, ss_all_files, ss_tiered, ss_selected,
                   ss_result>>
    /\ UNCHANGED otherThanSelect

\* lines 278-300
Pass1 ==
    /\ ss_pc = "grouped"
    /\ \E st \in {pass1(ss_disk, ss_tier_groups, 1, ss_limits, NoSelection)} :
          /\ ss_selected' = st
          /\ ss_pc' = IF st.raised THEN "raised" ELSE "pass1"
    /\ UNCHANGED <<ss_disk, ss_created, ss_limits, ss_all_files, ss_tiered, ss_tier_groups,
                   ss_result>>
    /\ UNCHANGED otherThanSelect

\* lines 302-316
Pass2 ==
    /\ ss_pc = "pass1"
    /\ \E st \in {pass2(ss_disk, ss_tiered, ss_limits, ss_selected)} :
          /\ ss_selected' = st
          /\ ss_pc' = IF st.raised THEN "raised" ELSE "pass2"
    /\ UNCHANGED <<ss_disk, ss_created, ss_limits, ss_all_files, ss_tiered, ss_tier_groups,
                   ss_result>>
    /\ UNCHANGED otherThanSelect

\* line 319
SortSelected ==
    /\ ss_pc = "pass2"
    /\ IF stat_raises(ss_disk, ss_selected.selected)
       THEN ss_pc' = "raised" /\ UNCHANGED ss_selected
       ELSE /\ ss_selected' =
                  [ss_selected EXCEPT !.selected = list_sort(@, tier_size_key(ss_disk, @))]
            /\ ss_pc' = "sorted"
    /\ UNCHANGED <<ss_disk, ss_created, ss_limits, ss_all_files, ss_tiered, ss_tier_groups,
                   ss_result>>
    /\ UNCHANGED otherThanSelect

\* lines 321-358
Emit ==
    /\ ss_pc = "sorted"
    /\ \E out \in {emit_loop(ss_disk, ss_selected.selected, 1, ss_limits, NoOutput)} :
          IF out.raised
          THEN ss_pc' = "raised" /\ UNCHANGED ss_result
          ELSE /\ ss_result' = scan_result(out, Len(ss_all_files))
               /\ ss_pc' = "done"
    /\ UNCHANGED <<ss_disk, ss_created, ss_limits, ss_all_files, ss_tiered, ss_tier_groups,
                   ss_selected>>
    /\ UNCHANGED otherThanSelect

NextSelect ==
    \/ \E path \in TierPaths, size \in FileSizes, kind \in FileKinds :
          CreateFile(path, size, kind)
    \/ \E f \in 1..MaxRaceFiles : DeleteFile(f)
    \/ \E max_files \in MaxFilesArgs, max_size_kb \in MaxSizeKbArgs : Walk(max_files, max_size_kb)
    \/ SizeFilter
    \/ GroupByTier
    \/ Pass1
    \/ Pass2
    \/ SortSelected
    \/ Emit

IdleAux == IdleCalibration /\ IdleParse /\ IdleValidate /\ IdleScan /\ IdleSelect

\* calculate_verdict called on any dict of agent results
VerdictInit == InitVerdict /\ IdleRetry /\ IdleRun /\ IdleAux
SpecVerdict == VerdictInit /\ [][NextVerdict]_vars

\* one call of complete_with_retry, the outcomes of complete chosen freely
RetryInit == InitRetry /\ IdleVerdict /\ IdleRun /\ IdleAux
SpecRetry == RetryInit /\ [][NextRetry]_vars

\* one run of run_review
Init == InitRun /\ IdleVerdict /\ IdleRetry /\ IdleAux
Next == NextRun
Spec == Init /\ [][Next]_vars

\* calls of add_reviewed_finding and add_project_rule on one project
CalibrationInit == InitCalibration /\ IdleVerdict /\ IdleRetry /\ IdleRun /\ IdleParse /\ IdleValidate /\ IdleScan /\ IdleSelect
SpecCalibration == CalibrationInit /\ [][NextCalibration]_vars

\* build_calibration_context after any reviews on a filled store
ContextInit == InitContext /\ IdleVerdict /\ IdleRetry /\ IdleRun /\ IdleParse /\ IdleValidate /\ IdleScan /\ IdleSelect
SpecContext == ContextInit /\ [][NextContext]_vars

\* parse_findings_markdown called on any document
ParseInit == InitParse /\ IdleVerdict /\ IdleRetry /\ IdleRun /\ IdleCalibration /\ IdleValidate /\ IdleScan /\ IdleSelect
SpecParse == ParseInit /\ [][NextParse]_vars

\* run_validator called on any findings with any answer of the validator
ValidateInit == InitValidate /\ IdleVerdict /\ IdleRetry /\ IdleRun /\ IdleCalibration /\ IdleParse /\ IdleScan /\ IdleSelect
SpecValidate == ValidateInit /\ [][NextValidate]_vars

\* get_file_tier called on any path
ScanInit == InitScan /\ IdleVerdict /\ IdleRetry /\ IdleRun /\ IdleCalibration /\ IdleParse /\ IdleValidate /\ IdleSelect
SpecScan == ScanInit /\ [][NextScan]_vars

\* get_source_files_content on any project, files deleted while it runs
SelectInit == InitSelect /\ IdleVerdict /\ IdleRetry /\ IdleRun /\ IdleCalibration /\ IdleParse /\ IdleValidate /\ IdleScan
SpecSelect == SelectInit /\ [][NextSelect]_vars

-----------------------------------------------------------------------------
(* Properties of calculate_verdict (SpecVerdict) *)

\* the sum of a sequence of numbers
RECURSIVE SeqSum(_)
SeqSum(s) == IF s = <<>> THEN 0 ELSE Head(s) + SeqSum(Tail(s))

\* C1: for any dict of agent results, calculate_verdict returns HOLD when the
\* blockers summed over the agents' summaries are above 0, else CONDITIONAL
\* when the highs summed over them are above 3, else SHIP.  The sums are
\* taken here over the positions of the dict, an entry without a summary or
\* without the count adding 0.
C1_VerdictFromTotals ==
    LET count(i, k) ==
            LET d == vd_findings[i].data
            IN  IF "summary" \in DOMAIN d /\ k \in DOMAIN d.summary THEN d.summary[k] ELSE 0
        total(k) == SeqSum([i \in 1..Len(vd_findings) |-> count(i, k)])
    IN  vd_verdict # "none" =>
            /\ total("blockers") > 0 => vd_verdict = "HOLD"
            /\ (total("blockers") = 0 /\ total("high") > 3) => vd_verdict = "CONDITIONAL"
            /\ (total("blockers") = 0 /\ total("high") <= 3) => vd_verdict = "SHIP"

\* C1 witness: four highs split two and two across two agents gave CONDITIONAL
C1_Witness ==
    /\ vd_verdict = "CONDITIONAL"
    /\ Len(vd_findings) = 2
    /\ vd_findings[1].data = [summary |-> [blockers |-> 0, high |-> 2]]
    /\ vd_findings[2].data = [summary |-> [blockers |-> 0, high |-> 2]]

-----------------------------------------------------------------------------
(* Properties of complete_with_retry (SpecRetry) *)

\* C5: after a failure whose error text carries 400, 401, 403 or 404,
\* whatever else it carries, complete_with_retry has returned that failure
\* and calls complete no more.
C5_NoRetryAfterClientError ==
    (/\ ncalls > 0
     /\ ~last_result.success
     /\ \E c \in {"400", "401", "403", "404"} : Contains(OrEmpty(last_result.error), c))
    => /\ rpc = "done"
       /\ ~returned.success
       /\ returned.content = last_result.content

\* C5 witness: the first failure carried both 429 and 401, more attempts
\* were configured, and the call returned after that one attempt
C5_Witness ==
    /\ rpc = "done"
    /\ ncalls = 1
    /\ max_attempts >= 2
    /\ ~last_result.success
    /\ Contains(OrEmpty(last_result.error), "429")
    /\ Contains(OrEmpty(last_result.error), "401")

\* C6: complete is called at most max(configured, 5) times and the call has
\* returned by then; when every attempt failed with a 429 and no 4xx marker
\* exactly max(configured, 5) attempts were made; a success is returned as
\* it is, with no further call.
C6_RateLimitCeiling ==
    LET ceiling == IF max_attempts > 5 THEN max_attempts ELSE 5
    IN  /\ ncalls <= ceiling
        /\ ncalls = ceiling => rpc = "done"
        /\ (rpc = "done" /\ ~returned.success /\ all429) => ncalls = ceiling
        /\ (ncalls > 0 /\ last_result.success) => (rpc = "done" /\ returned = last_result)

\* C6 witness: three attempts configured, five rate-limited attempts made
C6_Witness ==
    /\ rpc = "done"
    /\ max_attempts = 3
    /\ ncalls = 5
    /\ all429
    /\ ~returned.success

\* C7: a failure carrying a 5xx or timeout marker, and neither 429 nor a 4xx
\* marker, is retried exactly when its attempt number is below the configured
\* count, whatever the earlier failures were; when every failure was of this
\* class, complete was called the configured number of times, once if that
\* number is below 1.
C7_ServerErrorCeiling ==
    LET error_msg == OrEmpty(last_result.error)
        server_error ==
            /\ ncalls > 0
            /\ ~last_result.success
            /\ \E c \in {"500", "502", "503", "504", "timeout", "timed out"} :
                   Contains(error_msg, c)
            /\ ~Contains(error_msg, "429")
            /\ ~\E c \in {"400", "401", "403", "404"} : Contains(error_msg, c)
    IN  /\ server_error => (rpc = "loop" <=> ncalls < max_attempts)
        /\ server_error /\ ncalls >= max_attempts => (rpc = "done" /\ ~returned.success)
        /\ (rpc = "done" /\ ~returned.success /\ all5xx)
               => ncalls = (IF max_attempts < 1 THEN 1 ELSE max_attempts)

\* C7 witness: three attempts configured, three server errors and no more
C7_Witness ==
    /\ rpc = "done"
    /\ max_attempts = 3
    /\ ncalls = 3
    /\ all5xx
    /\ ~returned.success
    /\ Contains(OrEmpty(last_result.error), "503")

\* C8: a failed result that complete_with_retry returned is the result of
\* the last call of complete with its error replaced by the sanitised text,
\* and that text carries no key, no token after a Bearer header and, when
\* the home directory is known, no home path.
C8_FailureSanitised ==
    (rpc = "done" /\ ~returned.success) =>
        /\ returned = [last_result EXCEPT
                          !.error = Some(sanitize_error(OrEmpty(last_result.error), home))]
        /\ returned.error.some
        /\ \A i \in 1..Len(returned.error.val) :
               /\ returned.error.val[i] \notin KeyTokens
               /\ home => returned.error.val[i] # HomeToken
               /\ (i > 1 /\ returned.error.val[i - 1] = "Bearer")
                      => returned.error.val[i] = "[REDACTED]"

\* C8 witness: the retries were used up on rate limits whose text carried a
\* key, and the failure came back with the key redacted
C8_Witness ==
    /\ rpc = "done"
    /\ ~returned.success
    /\ ncalls = 5
    /\ Contains(OrEmpty(last_result.error), "sk-ant-abc123")
    /\ Contains(OrEmpty(returned.error), "[REDACTED_KEY]")

-----------------------------------------------------------------------------
(* Properties of run_review and run_validator (Spec) *)

\* the steps of the agent loop taken so far, as the agents they were about
AgentSteps == SelectSeq(steps, LAMBDA s : s.step \in {"call", "mock"})

\* the findings of an agent's result as first parsed from its answer
FirstParsed(agent_data) ==
    IF agent_data.status = "error" THEN <<>>
    ELSE parse_findings_markdown(agent_data.rawMarkdown, agent_data.agent).findings

C3_ImplicitlyConfirmed ==
    (/\ Len(steps) > 0
     /\ steps[Len(steps)].step = "validate"
     /\ steps[Len(steps)].what \in {"failed", "no_adjustments"})
    => /\ \A i \in 1..Len(all_findings) :
              all_findings[i].data.findings = FirstParsed(all_findings[i].data)
       /\ validation_stats.confirmed =
              SeqSum([i \in 1..Len(all_findings) |->
                  Cardinality({j \in 1..Len(all_findings[i].data.findings) :
                      all_findings[i].data.findings[j].severity \in {"BLOCKER", "HIGH"}})])
       /\ validation_stats.downgraded = 0
       /\ validation_stats.rejected = 0

\* C3 witness: the validator answered without a parseable block while a
\* BLOCKER was on the worklist, and the stats count nothing confirmed
C3_Witness ==
    /\ Len(steps) > 0
    /\ steps[Len(steps)] = Step("validate", "no_adjustments", TRUE)
    /\ \E i \in 1..Len(all_findings) :
           \E j \in 1..Len(all_findings[i].data.findings) :
               all_findings[i].data.findings[j].severity = "BLOCKER"
    /\ validation_stats.confirmed = 0

\* C4: in every state, every agent result (in memory or in a findings file)
\* has summary.total equal to the length of its findings list, and blockers,
\* high, medium and low equal to the number of findings of that severity.
C4_SummaryConsistent ==
    LET count(findings, sev) ==
            Cardinality({j \in 1..Len(findings) : findings[j].severity = sev})
        consistent(agent_data) ==
            /\ agent_data.summary.total = Len(agent_data.findings)
            /\ agent_data.summary.blockers = count(agent_data.findings, "BLOCKER")
            /\ agent_data.summary.high = count(agent_data.findings, "HIGH")
            /\ agent_data.summary.medium = count(agent_data.findings, "MEDIUM")
            /\ agent_data.summary.low = count(agent_data.findings, "LOW")
    IN  /\ \A i \in 1..Len(all_findings) : consistent(all_findings[i].data)
        /\ \A k \in DOMAIN json_files : consistent(json_files[k])

\* C4 witness: two adjustments were applied of which only one counted (the
\* other named an unknown id or repeated the first), and it took a finding
\* out of a list
C4_Witness ==
    /\ ~IsEmpty(validation_stats)
    /\ validation_stats.total = 2
    /\ validation_stats.rejected = 1
    /\ validation_stats.confirmed = 0
    /\ validation_stats.downgraded = 0
    /\ \E i \in 1..Len(all_findings) :
           Len(all_findings[i].data.findings) < Len(FirstParsed(all_findings[i].data))

\* C9: when the agent loop has ended, every selected agent was attempted
\* exactly once and in the order selected, and there is one result per
\* selected agent: status error, no findings and an all-zero summary if its
\* call failed, status complete otherwise.
C9_EveryAgentOnce ==
    pc = "validate" =>
        /\ \A i \in 1..Len(valid_agents) :
               Cardinality({j \in 1..Len(AgentSteps) :
                               AgentSteps[j].what = valid_agents[i]}) = 1
        /\ [j \in 1..Len(AgentSteps) |-> AgentSteps[j].what] = valid_agents
        /\ Keys(all_findings) = {valid_agents[i] : i \in 1..Len(valid_agents)}
        /\ Len(all_findings) = Len(valid_agents)
        /\ \A j \in 1..Len(AgentSteps) :
               LET r == Lookup(all_findings, AgentSteps[j].what)
               IN  IF AgentSteps[j].ok
                   THEN r.status = "complete"
                   ELSE /\ r.status = "error"
                        /\ r.findings = <<>>
                        /\ r.summary = [blockers |-> 0, high |-> 0, medium |-> 0,
                                        low |-> 0, total |-> 0]

\* C9 witness: guardian was selected twice; its first call succeeded, its
\* second failed, and its one result is the error
C9_Witness ==
    /\ pc = "validate"
    /\ valid_agents = <<"guardian", "guardian">>
    /\ Len(AgentSteps) = 2
    /\ AgentSteps[1].ok
    /\ ~AgentSteps[2].ok
    /\ Len(all_findings) = 1
    /\ all_findings[1].data.status = "error"

\* C10: the steps of a run come in the order scan, agents, validate,
\* synthesize, archive; the validator runs only when every selected agent
\* has been called; the verdict, the exit code, the report and the archive
\* are those of the findings as the validator left them, so that HOLD needs
\* a BLOCKER still in a list.
C10_StepOrder ==
    LET rank(s) == CASE s.step = "scan" -> 1
                     [] s.step \in {"call", "mock"} -> 2
                     [] s.step = "validate" -> 3
                     [] s.step = "synthesize" -> 4
                     [] s.step = "archive" -> 5
        count(sev) ==
            SeqSum([i \in 1..Len(all_findings) |->
                Cardinality({j \in 1..Len(all_findings[i].data.findings) :
                    all_findings[i].data.findings[j].severity = sev})])
    IN  /\ \A i, j \in 1..Len(steps) :
               i < j => \/ rank(steps[i]) < rank(steps[j])
                        \/ rank(steps[i]) = 2 /\ rank(steps[j]) = 2
        /\ Len(steps) > 0 => steps[1].step = "scan"
        /\ (\E i \in 1..Len(steps) : rank(steps[i]) >= 3)
               => [j \in 1..Len(AgentSteps) |-> AgentSteps[j].what] = valid_agents
        /\ verdict # "none" =>
               /\ verdict = (IF count("BLOCKER") > 0 THEN "HOLD"
                             ELSE IF count("HIGH") > 3 THEN "CONDITIONAL" ELSE "SHIP")
               /\ exit_code = (IF verdict = "HOLD" THEN 1
                               ELSE IF verdict = "CONDITIONAL" THEN 2 ELSE 0)
               /\ report.verdict = verdict
               /\ report.totals.blockers = count("BLOCKER")
               /\ report.totals.high = count("HIGH")
        /\ ~IsEmpty(archive) =>
               /\ archive.verdict = verdict
               /\ archive.exitCode = exit_code
               /\ Len(archive.agents) = Len(all_findings)
               /\ \A i \in 1..Len(all_findings) :
                      /\ archive.agents[i].key = all_findings[i].key
                      /\ archive.agents[i].data.findings = all_findings[i].data.findings
                      /\ archive.agents[i].data.summary = all_findings[i].data.summary

\* C10 witness: guardian reported a BLOCKER, the validator rejected or
\* lowered it, and the run was archived with the verdict SHIP
C10_Witness ==
    /\ pc = "done"
    /\ ~IsEmpty(archive)
    /\ archive.verdict = "SHIP"
    /\ exit_code = 0
    /\ ~IsEmpty(validation_stats)
    /\ validation_stats.rejected + validation_stats.downgraded > 0
    /\ \E i \in 1..Len(all_findings) :
           /\ all_findings[i].data.status = "complete"
           /\ \E j \in 1..Len(FirstParsed(all_findings[i].data)) :
                  FirstParsed(all_findings[i].data)[j].severity = "BLOCKER"

-----------------------------------------------------------------------------
(* Properties of the command line around run_review (Spec) *)

\* run_review gave up on a configuration error, or click never called it
ConfigurationError == exit_code \in {11, 12} \/ exit_code = -1

\* C11: when the process has ended on a configuration error (the project path
\* missing or not initialised, or no valid agent), no agent was called, no
\* findings file, report or archive was written, and the exit status of the
\* process is not zero, with or without --ci.
C11_ConfigErrorFatal ==
    (pc = "exited" /\ ConfigurationError) =>
        /\ steps = <<>>
        /\ json_files \in {<<>>, StaleFiles}
        /\ report = <<>>
        /\ archive = <<>>
        /\ process_exit # 0

\* the part of C11 that run_review keeps: nothing called, nothing written
C11_NothingPersisted ==
    (pc \in {"done", "exited"} /\ ConfigurationError) =>
        /\ steps = <<>>
        /\ json_files \in {<<>>, StaleFiles}
        /\ report = <<>>
        /\ archive = <<>>

\* run_review returned 12 or 11 under --ci and the process has ended
C11_Witness ==
    /\ pc = "exited"
    /\ exit_code \in {11, 12}
    /\ ci
    /\ process_exit = exit_code

\* run_review was called and has returned
RunReturned == pc \in {"done", "exited"} /\ exit_code # -1

\* run_review has returned without reaching the agent loop or a verdict
OperationalError ==
    /\ RunReturned
    /\ verdict = "none"
    /\ AgentSteps = <<>>

\* C12: run_review returns 0 for SHIP, 2 for CONDITIONAL and 1 for HOLD; it
\* returns 12 or 11 before anything was scanned (bad project path, no valid
\* agent) and 13 when the provider could not be set up after the scan; the
\* value returned on an operational error is never one of the verdict codes.
C12_ExitCodes ==
    /\ exit_code \in {-1, 0, 1, 2, 11, 12, 13}
    /\ (verdict # "none" /\ pc \in {"archive", "done", "exited"}) =>
           /\ verdict = "SHIP" => exit_code = 0
           /\ verdict = "CONDITIONAL" => exit_code = 2
           /\ verdict = "HOLD" => exit_code = 1
           /\ verdict \in {"SHIP", "CONDITIONAL", "HOLD"}
    /\ OperationalError =>
           /\ exit_code \in {11, 12, 13}
           /\ exit_code \notin {0, 1, 2}
           /\ exit_code \in {11, 12} <=> steps = <<>>
           /\ exit_code = 13 <=> (steps = <<Step("scan", "", TRUE)>> /\ ~dry_run)
    /\ (RunReturned /\ ~OperationalError) => exit_code \in {0, 1, 2}
    /\ (RunReturned /\ verdict = "none" /\ ~OperationalError) => exit_code = 0

\* a run has ended with the verdict CONDITIONAL and the code 2
C12_Witness ==
    /\ pc = "done"
    /\ verdict = "CONDITIONAL"
    /\ exit_code = 2

-----------------------------------------------------------------------------
(* Properties of the calibration store (SpecCalibration) *)

\* the entries built by the add_reviewed_finding calls so far, in order
ReviewedCalls == SelectSeq(cal_calls, LAMBDA e : "finding_id" \in DOMAIN e)

\* how many entries of a list carry an id
CountId(entries, id) == Cardinality({i \in 1..Len(entries) : entry_id(entries[i]) = id})

\* C13: after any sequence of add_reviewed_finding calls on a store whose ids
\* are distinct, the reviewed_findings that load_calibration returns hold
\* exactly one entry per finding_id ever added, equal to the entry of the
\* latest call for that id; the entries of ids never added again are the
\* stored ones, and there is no other entry.
C13_OneEntryPerId ==
    LET now == load_calibration(cal_file).reviewed_findings
        before == load_calibration(cal_file0).reviewed_findings
        added == ReviewedCalls
        AddedIds == {added[i].finding_id : i \in 1..Len(added)}
        StoredIds == {entry_id(before[i]) : i \in 1..Len(before)}
        latest(id) == added[CHOOSE i \in 1..Len(added) :
                                added[i].finding_id = id
                                /\ \A j \in (i + 1)..Len(added) : added[j].finding_id # id]
    IN  /\ \A id \in AddedIds :
               /\ CountId(now, id) = 1
               /\ \E i \in 1..Len(now) : now[i] = latest(id)
        /\ \A i \in 1..Len(before) :
               entry_id(before[i]) \notin AddedIds =>
                   /\ CountId(now, entry_id(before[i])) = 1
                   /\ \E j \in 1..Len(now) : now[j] = before[i]
        /\ Len(now) = Cardinality(AddedIds \cup StoredIds)

\* a stored id was added twice with different fields, and another id once
C13_Witness ==
    /\ Len(ReviewedCalls) = 3
    /\ Len(load_calibration(cal_file0).reviewed_findings) = 2
    /\ ReviewedCalls[1].finding_id = Str("42")
    /\ ReviewedCalls[3].finding_id = Str("42")
    /\ ReviewedCalls[1] # ReviewedCalls[3]
    /\ ReviewedCalls[2].finding_id = Str("SENTINEL-002")
    /\ Len(load_calibration(cal_file).reviewed_findings) = 3

-----------------------------------------------------------------------------
(* Properties of parse_findings_markdown (SpecParse) *)

\* token i lies between an opening fence and its closing fence: the fences
\* before it are odd in number and one more follows
InFencedBlock(content, i) ==
    /\ Cardinality({j \in 1..(i - 1) : content[j].kind = "fence"}) % 2 = 1
    /\ \E j \in (i + 1)..Len(content) : content[j].kind = "fence"

\* the positions of the whole headings outside every fenced block, in order
OutsideHeadings(content) ==
    SelectSeq([i \in 1..Len(content) |-> i],
              LAMBDA i : content[i].kind = "heading" /\ ~InFencedBlock(content, i))

\* C14: for any document, the parsed findings are exactly the well-formed
\* headings that lie outside every fenced code block, in document order: no
\* heading inside a block is among them and none outside is missing.
C14_FencedHeadings ==
    pd_result # <<>> =>
        LET outside == OutsideHeadings(pd_content)
        IN  /\ Len(pd_result.findings) = Len(outside)
            /\ \A n \in 1..Len(outside) :
                   /\ pd_result.findings[n].id = pd_content[outside[n]].id
                   /\ pd_result.findings[n].severity = pd_content[outside[n]].sev

\* the same for documents in which no heading is cut after its colon
C14_WholeHeadingsOnly ==
    (pd_result # <<>> /\ \A i \in 1..Len(pd_content) : pd_content[i].kind # "stub") =>
        LET outside == OutsideHeadings(pd_content)
        IN  /\ Len(pd_result.findings) = Len(outside)
            /\ \A n \in 1..Len(outside) :
                   /\ pd_result.findings[n].id = pd_content[outside[n]].id
                   /\ pd_result.findings[n].severity = pd_content[outside[n]].sev

\* a document with a heading inside a closed block and another one after it
\* has been parsed
C14_Witness ==
    /\ pd_result # <<>>
    /\ pd_content = <<FenceTok, Heading("GUARDIAN-001", "HIGH"), FenceTok,
                      Heading("GUARDIAN-002", "LOW")>>
    /\ Len(pd_result.findings) = 1
    /\ pd_result.findings[1].id = "GUARDIAN-002"

-----------------------------------------------------------------------------
(* Properties of run_validator and _apply_adjustments (SpecValidate) *)

\* the blocks of the validator's answer that were applied
AppliedBlocks ==
    IF va_out # <<>> /\ va_out.path \in {"applied", "no_adjustments"}
    THEN SelectSeq(va_result.content, LAMBDA t : t.kind = "validate")
    ELSE <<>>

HasBlock(fid) == \E i \in 1..Len(AppliedBlocks) : AppliedBlocks[i].id = fid

\* the validator's decision on an id is that of the last block naming it
BlockFor(fid) ==
    AppliedBlocks[CHOOSE i \in 1..Len(AppliedBlocks) :
                      /\ AppliedBlocks[i].id = fid
                      /\ \A j \in (i + 1)..Len(AppliedBlocks) : AppliedBlocks[j].id # fid]

DecisionFor(fid) ==
    IF ~HasBlock(fid) THEN "none"
    ELSE decision_of(BlockFor(fid).original, BlockFor(fid).adjusted)

\* the findings of the k-th agent before and after validation
Before(k) == va_findings[k].data.findings
After(k) == va_out.findings[k].data.findings

\* the positions in Before(k) of the findings that were not rejected
Kept(k) ==
    SelectSeq([i \in 1..Len(Before(k)) |-> i],
              LAMBDA i : DecisionFor(Before(k)[i].id) # "rejected")

\* BLOCKER > HIGH > MEDIUM > LOW
SeverityRank(sev) ==
    CASE sev = "BLOCKER" -> 4
      [] sev = "HIGH" -> 3
      [] sev = "MEDIUM" -> 2
      [] sev = "LOW" -> 1
      [] OTHER -> 0

\* C15: a finding whose decision is 'downgraded' stays in its list with the
\* adjusted severity as its severity and, as original_severity, the severity
\* it had just before validation; a finding whose decision is 'confirmed'
\* keeps its severity and is only marked validated.
C15_DowngradedAndConfirmed ==
    va_out # <<>> =>
        \A k \in 1..Len(va_findings) :
            /\ Len(After(k)) = Len(Kept(k))
            /\ \A n \in 1..Len(Kept(k)) :
                   LET f == Before(k)[Kept(k)[n]]
                       g == After(k)[n]
                   IN  /\ DecisionFor(f.id) = "downgraded" =>
                              /\ g.id = f.id
                              /\ g.severity = BlockFor(f.id).adjusted
                              /\ g.original_severity = f.severity
                              /\ g.validated = "downgraded"
                       /\ DecisionFor(f.id) = "confirmed" =>
                              g = [validated |-> "confirmed"] @@ f

\* one finding that was BLOCKER has been downgraded by a block that calls it
\* HIGH, another one has been confirmed
C15_Witness ==
    /\ va_out # <<>>
    /\ \E n \in 1..Len(After(1)) :
           /\ "validated" \in DOMAIN After(1)[n]
           /\ After(1)[n].validated = "downgraded"
           /\ After(1)[n].original_severity = "BLOCKER"
           /\ After(1)[n].severity = "LOW"
    /\ \E n \in 1..Len(After(1)) :
           /\ "validated" \in DOMAIN After(1)[n]
           /\ After(1)[n].validated = "confirmed"

\* how often a finding occurs in a list
Occurrences(findings, f) == Cardinality({i \in 1..Len(findings) : findings[i] = f})

\* C16: validation touches the BLOCKER and HIGH findings only: every finding
\* that was MEDIUM or LOW when validation started is in its list afterwards,
\* unchanged, and every finding changed or removed was BLOCKER or HIGH.
C16_LowSeverityUntouched ==
    va_out # <<>> =>
        \A k \in 1..Len(va_findings) :
            /\ \A i \in 1..Len(Before(k)) :
                   Before(k)[i].severity \in {"MEDIUM", "LOW"} =>
                       Occurrences(After(k), Before(k)[i]) >= Occurrences(Before(k), Before(k)[i])
            /\ \A i \in 1..Len(Before(k)) :
                   Occurrences(After(k), Before(k)[i]) < Occurrences(Before(k), Before(k)[i]) =>
                       Before(k)[i].severity \in {"BLOCKER", "HIGH"}

\* the same when the answer names ids of BLOCKER and HIGH findings only
C16_WorklistIdsOnly ==
    (/\ va_out # <<>>
     /\ \A k \in 1..Len(va_findings) : \A i \in 1..Len(Before(k)) :
            HasBlock(Before(k)[i].id) => Before(k)[i].severity \in {"BLOCKER", "HIGH"}) =>
        \A k \in 1..Len(va_findings) : \A i \in 1..Len(Before(k)) :
            Before(k)[i].severity \in {"MEDIUM", "LOW"} =>
                Occurrences(After(k), Before(k)[i]) >= Occurrences(Before(k), Before(k)[i])

\* validation has applied a block to a HIGH finding of an agent that also
\* has a MEDIUM finding
C16_Witness ==
    /\ va_out # <<>>
    /\ va_out.path = "applied"
    /\ \E i \in 1..Len(Before(1)) : Before(1)[i].severity = "MEDIUM"
    /\ \E i \in 1..Len(Before(1)) :
           Before(1)[i].severity = "HIGH" /\ DecisionFor(Before(1)[i].id) = "downgraded"

\* the number of BLOCKER findings in a list
Blockers(findings) == Cardinality({i \in 1..Len(findings) : findings[i].severity = "BLOCKER"})

\* C17 as stated: every finding that remains after validation has the same
\* or a less severe severity than before (BLOCKER > HIGH > MEDIUM > LOW), and
\* no agent has more blockers than before.
C17_NeverMoreSevere ==
    va_out # <<>> =>
        \A k \in 1..Len(va_findings) :
            /\ Len(After(k)) = Len(Kept(k))
            /\ \A n \in 1..Len(Kept(k)) :
                   SeverityRank(After(k)[n].severity)
                       <= SeverityRank(Before(k)[Kept(k)[n]].severity)
            /\ Blockers(After(k)) <= Blockers(Before(k))

\* C17 amended: a finding that remains has the severity it had, or, when the
\* last block naming its id gives a new severity other than the one the block
\* states as original, that new severity, which can be more severe; an
\* agent's blocker count grows by at most the number of its findings so set
\* to BLOCKER; and when no block gives a finding a new severity above its
\* own, no severity rises and no blocker count grows.
C17_SeverityFromLastBlock ==
    va_out # <<>> =>
        \A k \in 1..Len(va_findings) :
            LET raised == {i \in 1..Len(Before(k)) :
                              /\ DecisionFor(Before(k)[i].id) = "downgraded"
                              /\ SeverityRank(BlockFor(Before(k)[i].id).adjusted)
                                     > SeverityRank(Before(k)[i].severity)}
                toBlocker == {i \in raised : BlockFor(Before(k)[i].id).adjusted = "BLOCKER"}
            IN  /\ Len(After(k)) = Len(Kept(k))
                /\ \A n \in 1..Len(Kept(k)) :
                       LET f == Before(k)[Kept(k)[n]]
                       IN  After(k)[n].severity =
                               IF DecisionFor(f.id) = "downgraded"
                               THEN BlockFor(f.id).adjusted
                               ELSE f.severity
                /\ Blockers(After(k)) <= Blockers(Before(k)) + Cardinality(toBlocker)
                /\ raised = {} =>
                       /\ \A n \in 1..Len(Kept(k)) :
                              SeverityRank(After(k)[n].severity)
                                  <= SeverityRank(Before(k)[Kept(k)[n]].severity)
                       /\ Blockers(After(k)) <= Blockers(Before(k))

\* a HIGH finding has become BLOCKER by a block classified as 'downgraded'
C17_Witness ==
    /\ va_out # <<>>
    /\ \E n \in 1..Len(After(1)) :
           /\ "validated" \in DOMAIN After(1)[n]
           /\ After(1)[n].validated = "downgraded"
           /\ After(1)[n].original_severity = "HIGH"
           /\ After(1)[n].severity = "BLOCKER"
    /\ Blockers(After(1)) > Blockers(Before(1))

\* C18: applying the adjustments of the same validator answer once more to
\* the findings the first application produced gives the same end state:
\* the same lists, severities, original_severity and summaries.
C18_ApplyTwiceSame ==
    va_again # <<>> => va_again.findings = va_out.findings

\* the part that a second application keeps: the same findings in the same
\* order with the same severities, and the same summaries
C18_SameSeverities ==
    va_again # <<>> =>
        \A k \in 1..Len(va_out.findings) :
            LET once == va_out.findings[k].data
                twice == va_again.findings[k].data
            IN  /\ twice.summary = once.summary
                /\ Len(twice.findings) = Len(once.findings)
                /\ \A n \in 1..Len(once.findings) :
                       /\ twice.findings[n].id = once.findings[n].id
                       /\ twice.findings[n].severity = once.findings[n].severity

\* the adjustments have been applied twice, the first time lowering a finding
C18_Witness ==
    /\ va_again # <<>>
    /\ \E n \in 1..Len(After(1)) :
           /\ "validated" \in DOMAIN After(1)[n]
           /\ After(1)[n].validated = "downgraded"
           /\ After(1)[n].original_severity = "HIGH"
           /\ After(1)[n].severity = "LOW"

-----------------------------------------------------------------------------
(* Properties of get_file_tier (SpecScan) *)

ScanName == lower_name(sc_path.name)
ScanPath(dirs, name) == sc_path = [dirs |-> dirs, name |-> name]
TestNamed == <<"test", "_", "x", ".", "py">>

\* the rules in their order, each as a condition on the path alone
EntryPointRule ==
    \/ ScanName \in TIER1_ALWAYS
    \/ starts_with(ScanName, "docker-compose", ".")
    \/ /\ ScanName \in {Dot("settings", "py"), Dot("setup", "py")}
             \/ starts_with(ScanName, "config", ".")
       /\ ~any_part_in(sc_path.dirs, ambiguous_dirs)
    \/ ScanName \in {Dot("index", "js"), Dot("index", "ts")} /\ Len(sc_path.dirs) <= 2
BusinessRule == any_part_in(sc_path.dirs, TIER2_DIRS) /\ ~is_test_file(ScanName)
ModelRule == any_part_in(sc_path.dirs, TIER3_DIRS)
TestRule == is_test_file(ScanName) \/ any_part_in(sc_path.dirs, TEST_DIRS)
DocRule ==
    \/ ScanName[1] \in doc_words
    \/ any_part_in(sc_path.dirs, DOC_DIRS) /\ suffix(sc_path.name) = "md"
FrontendRule == any_part_in(sc_path.dirs, TIER6_DIRS)

RuleMatches(n) ==
    CASE n = 1 -> EntryPointRule
      [] n = 2 -> BusinessRule
      [] n = 3 -> ModelRule
      [] n = 4 -> TestRule
      [] n = 5 -> DocRule
      [] n = 6 -> FrontendRule
      [] OTHER -> TRUE

C20_AmbiguousNotTier1 ==
    (/\ sc_tier # 0
     /\ \/ ScanName \in {Dot("settings", "py"), Dot("setup", "py")}
        \/ starts_with(ScanName, "config", ".")
     /\ any_part_in(sc_path.dirs, {"services", "core", "lib", "utils", "middleware", "api",
                                   "hooks", "controllers", "handlers", "routes",
                                   "endpoints"})) =>
        sc_tier # 1

\* the same for the directories of API_DIRS
C20_ApiDirsOnly ==
    (/\ sc_tier # 0
     /\ \/ ScanName \in {Dot("settings", "py"), Dot("setup", "py")}
        \/ starts_with(ScanName, "config", ".")
     /\ any_part_in(sc_path.dirs, {"services", "api", "endpoints", "controllers", "handlers",
                                   "routes"})) =>
        sc_tier # 1

\* src/api/settings.py has been classified, and not as tier 1
C20_Witness ==
    /\ sc_tier = 2
    /\ ScanPath(<<"src", "api">>, Dot("settings", "py"))

-----------------------------------------------------------------------------
(* Properties of get_source_files_content (SpecSelect) *)

\* the (file, tier) pairs selected so far
Selected == ss_selected.selected

\* the sizes of the files of a list of (file, tier) pairs, summed
BytesOf(items) == SeqSum([i \in 1..Len(items) |-> ss_disk[items[i][1]].size])

\* the pairs of one tier
OfTier(items, t) == filter_list(items, {x \in Range(items) : x[2] = t})

\* the scan has come through pass 1
SelectionMade == ss_pc \in {"pass1", "pass2", "sorted", "done"}

\* the size-eligible files that are not selected
Unselected == Range(ss_tiered) \ Range(Selected)

\* C21: after the two passes no file is selected twice, at most max_files
\* files are selected and their sizes sum to at most the byte budget; what
\* pass 1 chose from any one tier is at most that tier's file cap and at most
\* 30 percent of the byte budget.
C21_SelectionWithinBudgets ==
    SelectionMade =>
        /\ \A i, j \in 1..Len(Selected) : Selected[i][1] = Selected[j][1] => i = j
        /\ Len(Selected) <= ss_limits.max_files
        /\ BytesOf(Selected) <= ss_limits.max_bytes
        /\ BytesOf(Selected) = ss_selected.total_size
        /\ ss_pc = "pass1" =>
              \A t \in 1..7 :
                  /\ Len(OfTier(Selected, t)) <= TIER_FILE_CAPS[t]
                  /\ 100 * BytesOf(OfTier(Selected, t)) <= 30 * ss_limits.max_bytes

\* pass 1 has ended with a tier whose file cap kept a file out and with a
\* file too large for the byte cap of its tier
C21_Witness ==
    /\ ss_pc = "pass1"
    /\ \E t \in 1..7 :
          /\ Len(OfTier(Selected, t)) = TIER_FILE_CAPS[t]
          /\ \E x \in Unselected : x[2] = t /\ 100 * ss_disk[x[1]].size <= 30 * ss_limits.max_bytes
    /\ \E x \in Unselected : 100 * ss_disk[x[1]].size > 30 * ss_limits.max_bytes
    /\ Len(Selected) < ss_limits.max_files

\* the size-eligible files of tier 1 that fit the byte budget on their own
EntryPoints == {x \in Range(ss_tiered) : x[2] = 1 /\ ss_disk[x[1]].size <= ss_limits.max_bytes}

\* both passes are over
PassesOver == ss_pc \in {"pass2", "sorted", "done"}

\* C22: whenever a size-eligible tier-1 file fits the byte budget on its own
\* and max_files >= 1, the files selected include a tier-1 file.
C22_EntryPointSelected ==
    (PassesOver /\ ss_limits.max_files >= 1 /\ EntryPoints # {}) =>
        \E x \in Range(Selected) : x[2] = 1

\* the same for tier-1 files within the byte cap of a tier, which pass 1 takes first
C22_SmallEntryPointSelected ==
    (SelectionMade /\ ss_limits.max_files >= 1
        /\ \E x \in EntryPoints : 100 * ss_disk[x[1]].size <= 30 * ss_limits.max_bytes) =>
        \E x \in Range(Selected) : x[2] = 1

\* both passes are over, a tier-1 file fits the budget, and none is selected
C22_Witness ==
    /\ PassesOver
    /\ ss_limits.max_files >= 1
    /\ EntryPoints # {}
    /\ Selected # <<>>
    /\ \A x \in Range(Selected) : x[2] # 1

\* what pass 2 appended to the selection of pass 1 in the step taken
Appended == SubSeq(Selected', Len(Selected) + 1, Len(Selected'))

\* (tier, -size) of a (file, tier) pair
OrderKey(x) == <<x[2], 0 - ss_disk[x[1]].size>>

\* C23: when pass 2 ends, either max_files files are selected or no
\* unselected size-eligible file fits in what is left of the byte budget;
\* pass 2 goes through the unselected files by (tier ascending, size
\* descending) and keeps none out for the caps of its tier: what it appends
\* is in that order, and a file left out that comes before an appended one
\* did not fit when its turn came.
C23_BudgetNotWasted ==
    [][(ss_pc = "pass1" /\ ss_pc' = "pass2") =>
        /\ SubSeq(Selected', 1, Len(Selected)) = Selected
        /\ \/ Len(Selected') = ss_limits.max_files
           \/ \A x \in Range(ss_tiered) \ Range(Selected') :
                 BytesOf(Selected') + ss_disk[x[1]].size > ss_limits.max_bytes
        /\ \A i, j \in 1..Len(Appended) :
              i < j => ~tuple_less(OrderKey(Appended[j]), OrderKey(Appended[i]))
        /\ \A p \in (Len(Selected) + 1)..Len(Selected') :
              \A x \in Range(ss_tiered) \ Range(Selected') :
                 tuple_less(OrderKey(x), OrderKey(Selected'[p])) =>
                    BytesOf(SubSeq(Selected', 1, p - 1)) + ss_disk[x[1]].size
                        > ss_limits.max_bytes]_vars

\* both passes are over; pass 2 has brought a tier above its file cap and a
\* tier above 30 percent of the budget, and a file that no longer fits is left out
C23_Witness ==
    /\ PassesOver
    /\ \E t \in 1..7 : Len(OfTier(Selected, t)) > TIER_FILE_CAPS[t]
    /\ \E t \in 1..7 : 100 * BytesOf(OfTier(Selected, t)) > 30 * ss_limits.max_bytes
    /\ Len(Selected) < ss_limits.max_files
    /\ Unselected # {}

\* the project without the files that cannot be read or are blank
WithoutBadFiles(disk) ==
    [i \in 1..Len(disk) |-> IF disk[i].kind # "text" THEN [disk[i] EXCEPT !.exists = FALSE]
                            ELSE disk[i]]

\* what the caller is told of the files: which, how many, how large
Reported(result) == <<result.parts, result.file_count, result.total_size_kb>>

\* the scan has returned and no file was deleted meanwhile
QuietlyDone == ss_pc = "done" /\ DeletedFiles(ss_disk) = {}

\* C24: a file that cannot be read as text, or is empty after trimming, is
\* skipped without consuming budget: it is not counted in the reported file
\* count or size, and the other files are reported as they would be if the
\* file were not in the project.
C24_SkippedWithoutBudget ==
    QuietlyDone =>
        /\ \A i \in 1..Len(ss_result.parts) : ss_disk[ss_result.parts[i]].kind = "text"
        /\ Reported(ss_result) =
              Reported(quiet_scan(WithoutBadFiles(ss_disk), ss_limits.max_files,
                                  ss_limits.max_bytes \div 1024))

\* the half of C24 about the report: only text files are emitted, file_count
\* is their number and total_size_kb their rounded size
C24_NotCounted ==
    ss_pc = "done" =>
        /\ \A i \in 1..Len(ss_result.parts) : ss_disk[ss_result.parts[i]].kind = "text"
        /\ ss_result.file_count = Len(ss_result.parts)
        /\ ss_result.total_size_kb =
              IF ss_result.parts = <<>> THEN 0
              ELSE size_kb_tenths(SeqSum([i \in 1..Len(ss_result.parts) |->
                                             ss_disk[ss_result.parts[i]].size]))

\* the scan has returned, a blank or unreadable file was selected, and a
\* text file that would have been emitted without it is missing from the result
C24_Witness ==
    /\ QuietlyDone
    /\ \E x \in Range(Selected) : ss_disk[x[1]].kind # "text"
    /\ \E f \in Range(quiet_scan(WithoutBadFiles(ss_disk), ss_limits.max_files,
                                 ss_limits.max_bytes \div 1024).parts) :
          f \notin Range(ss_result.parts)

\* a file was deleted after the walk had listed it
DeletedAfterWalk == \E i \in 1..Len(ss_all_files) : ~ss_disk[ss_all_files[i][1]].exists

\* C25: when a file is deleted between the walk and a later size lookup the
\* scan does not raise; it skips the file and returns a result built from the others.
C25_StatRaceSkipped ==
    /\ ss_pc # "raised"
    /\ (ss_pc = "done" /\ DeletedAfterWalk) =>
          \A i \in 1..Len(ss_result.parts) : ss_disk[ss_result.parts[i]].exists

\* a file was deleted after the walk and the scan has ended in FileNotFoundError
C25_Witness == ss_pc = "raised" /\ DeletedAfterWalk /\ ss_result = <<>>

\* the scans that return although a file was deleted: the file was too small
\* or too large and deleted after the size filter, or not selected and deleted
\* after pass 2
C25_ReturnsOnlyIfNotLookedUp ==
    (ss_pc = "done" /\ DeletedAfterWalk) =>
        \A f \in DeletedFiles(ss_disk) : \A x \in Range(Selected) : x[1] # f

-----------------------------------------------------------------------------
(* Properties of the location fields of parse_findings_markdown (SpecParse) *)

\* the document has been parsed
Parsed == pd_result # <<>>

\* C26: every finding of parse_findings_markdown that has a line field has
\* a file field too.
C26_LineOnlyWithFile ==
    Parsed =>
        \A i \in 1..Len(pd_result.findings) :
            "line" \in DOMAIN pd_result.findings[i] => "file" \in DOMAIN pd_result.findings[i]

\* a line that comes with the location ("path:number") always has its file
C26_LineOfLocationHasFile ==
    Parsed =>
        \A i \in 1..Len(pd_result.findings) :
            ("line" \in DOMAIN pd_result.findings[i] /\ pd_result.findings[i].line = 42)
                => ("file" \in DOMAIN pd_result.findings[i]
                    /\ pd_result.findings[i].file = "a.py")

\* a finding was parsed whose section holds a Line field and no location:
\* it has a line and no file
C26_Witness ==
    /\ Parsed
    /\ \E i \in 1..Len(pd_result.findings) :
          /\ "line" \in DOMAIN pd_result.findings[i]
          /\ "file" \notin DOMAIN pd_result.findings[i]

-----------------------------------------------------------------------------
(* Properties of build_calibration_context (SpecContext) *)

\* the reviews in the order they were made: those of the store, then the calls
ReviewHistory == load_calibration(cal_file0).reviewed_findings \o ReviewedCalls

\* the positions of the reviews that no later review of the same finding replaced
Standing(history) ==
    {i \in 1..Len(history) :
        \A j \in (i + 1)..Len(history) : history[j].finding_id # history[i].finding_id}

\* the standing reviews of an agent with one verdict
StandingOf(history, agent_key, v) ==
    {i \in Standing(history) : history[i].agent = Str(agent_key) /\ history[i].verdict = Str(v)}

\* the lines of a section are the n latest standing reviews of the agent
\* with the verdict, oldest first
ListsLatest(lines, history, agent_key, v, n) ==
    \A mine \in {StandingOf(history, agent_key, v)} :
        \A latest \in {{i \in mine : Cardinality({j \in mine : j > i}) < n}} :
            /\ Len(lines) = Cardinality(latest)
            /\ \A k \in 1..Len(lines) :
                  \E i \in latest :
                      /\ Cardinality({j \in latest : j < i}) = k - 1
                      /\ history[i].finding_id.text = lines[k].finding_id
                      /\ history[i].reason.text = lines[k].reason

\* C27: after any sequence of calibration writes the prompt of an agent lists
\* at most 10 false positives, at most 10 adjustments and at most 5
\* confirmations, all of that agent, and in each group they are the reviews
\* added or replaced last, in the order of the store.
C27_MostRecentExamples ==
    cal_context # <<>> =>
        /\ Len(cal_context.false_positives) <= 10
        /\ Len(cal_context.adjusted) <= 10
        /\ Len(cal_context.confirmed) <= 5
        /\ \A history \in {ReviewHistory} :
              /\ ListsLatest(cal_context.false_positives, history, cal_context.agent_key,
                             "false_positive", 10)
              /\ ListsLatest(cal_context.adjusted, history, cal_context.agent_key,
                             "adjusted", 10)
              /\ ListsLatest(cal_context.confirmed, history, cal_context.agent_key,
                             "confirmed", 5)

\* the prompt of guardian was built from a store with eleven false positives
\* of guardian, the oldest of which a later review had replaced: it lists
\* ten, the replaced one last and the second oldest not at all
C27_Witness ==
    /\ cal_context # <<>>
    /\ cal_context.agent_key = "guardian"
    /\ Len(ReviewedCalls) >= 1
    /\ Len(cal_context.false_positives) = 10
    /\ cal_context.false_positives[10].finding_id = "GUARDIAN-001"
    /\ cal_context.false_positives[10].reason = "reviewed by hand"
    /\ \A k \in 1..10 : cal_context.false_positives[k].finding_id # "GUARDIAN-101"
    /\ Cardinality(StandingOf(ReviewHistory, "guardian", "false_positive")) = 11

-----------------------------------------------------------------------------
(* Properties of the findings files of run_review (Spec) *)

\* the ids and severities of the findings of an agent result, in order
IdsAndSeverities(af) ==
    [i \in 1..Len(af.findings) |-> <<af.findings[i].id, af.findings[i].severity>>]

\* the agents whose result in memory comes from a call that succeeded
CompleteAgents == {k \in Keys(all_findings) : Lookup(all_findings, k).status = "complete"}

FailedAgents == {k \in Keys(all_findings) : Lookup(all_findings, k).status = "error"}

\* the verdict has been computed
Synthesized == verdict # "none"

\* C29: an agent whose provider call fails contributes zero blockers and zero
\* highs to the verdict (the verdict is that of the other agents alone), so a
\* run with synthesis in which every selected agent fails ends with verdict
\* SHIP and exit code 0.
C29_FailedAgentsShip ==
    /\ \A k \in FailedAgents :
          /\ Lookup(all_findings, k).summary.blockers = 0
          /\ Lookup(all_findings, k).summary.high = 0
    /\ Synthesized =>
          /\ verdict = calculate_verdict(
                           SelectSeq(all_findings, LAMBDA e : e.data.status # "error"))
          /\ FailedAgents = Keys(all_findings) => (verdict = "SHIP" /\ exit_code = 0)

\* a run of two agents has ended, both calls failed, the verdict is SHIP
C29_Witness ==
    /\ pc = "done"
    /\ Synthesized
    /\ Len(AgentSteps) = 2
    /\ \A i \in 1..Len(AgentSteps) : ~AgentSteps[i].ok
    /\ FailedAgents = {"guardian", "sentinel"}
    /\ verdict = "SHIP"
    /\ exit_code = 0

-----------------------------------------------------------------------------
(* Properties of the order of findings after _apply_adjustments (SpecValidate) *)

\* the severity a finding had before validation, read from the finding after it
SeverityBefore(g) == IF "original_severity" \in DOMAIN g THEN g.original_severity ELSE g.severity

====
